---- MODULE Spec2Model ----
(***************************************************************************)
(* A model of the smartmemo search core and of the UI timers around it.    *)
(*                                                                         *)
(* Text is a sequence of UTF-16 code units (integers), as JavaScript sees  *)
(* a string; offsets in the source are 0-based and are kept 0-based here   *)
(* (the sequence index is the offset plus one).  Scores are exact          *)
(* rationals <<numerator, denominator>> in lowest terms.                   *)
(***************************************************************************)
EXTENDS Integers, Sequences, FiniteSets, TLC

(***************************************************************************)
(* Character classes of the JavaScript regular expressions used by the     *)
(* source (no "u" flag anywhere: \w, \b and \s are the ES5 classes).       *)
(***************************************************************************)

\* const name = value; and then: In(value) is what follows with the name
\* bound to the value.
Let(value, In(_)) == In(value)

\* \s : WhiteSpace and LineTerminator code units.
IsSpace(c) ==
    \/ c \in {9, 10, 11, 12, 13, 32, 160, 5760, 8232, 8233, 8239, 8287, 12288, 65279}
    \/ c \in 8192..8202

\* \w : [A-Za-z0-9_]
IsWordChar(c) ==
    \/ c \in 48..57
    \/ c \in 65..90
    \/ c = 95
    \/ c \in 97..122

\* String.prototype.toLowerCase on one code unit: ASCII A-Z and fullwidth
\* A-Z are the cased letters of the alphabets used here.
LowerChar(c) ==
    IF c \in 65..90 \/ c \in 65313..65338 THEN c + 32 ELSE c

\* String.prototype.toUpperCase on one code unit (also the canonical form
\* the "i" flag of a regular expression compares).
UpperChar(c) ==
    IF c \in 97..122 \/ c \in 65345..65370 THEN c - 32 ELSE c

RECURSIVE MapStr(_, _)
MapStr(F(_), s) ==
    IF s = << >> THEN << >> ELSE <<F(Head(s))>> \o MapStr(F, Tail(s))

ToLowerCase(s) == MapStr(LowerChar, s)

ToUpperCase(s) == MapStr(UpperChar, s)

(***************************************************************************)
(* String primitives of JavaScript.                                        *)
(***************************************************************************)

Min(a, b) == IF a <= b THEN a ELSE b

Max(a, b) == IF a >= b THEN a ELSE b

\* s.substring(from, to) for 0 <= from <= to <= s.length.
Substring(s, from, to) == SubSeq(s, from + 1, to)

\* Whether p occurs in s at 0-based offset i.
OccursAt(s, p, i) ==
    /\ i >= 0
    /\ i + Len(p) <= Len(s)
    /\ \A k \in 1..Len(p) : s[i + k] = p[k]

\* s.indexOf(p, from): the position is clamped to [0, s.length]; the empty
\* string is found at the clamped position, whatever `from` is.
IndexOf(s, p, from) ==
    Let({i \in Min(Max(from, 0), Len(s))..(Len(s) - Len(p)) : OccursAt(s, p, i)},
        LAMBDA hits : IF hits = {} THEN -1
                      ELSE CHOOSE i \in hits : \A j \in hits : i <= j)

\* s.includes(p)
Includes(s, p) == IndexOf(s, p, 0) # -1

\* s.trim()
RECURSIVE TrimLeft(_)
TrimLeft(s) ==
    IF s # << >> /\ IsSpace(Head(s)) THEN TrimLeft(Tail(s)) ELSE s

RECURSIVE TrimRight(_)
TrimRight(s) ==
    IF s # << >> /\ IsSpace(s[Len(s)]) THEN TrimRight(SubSeq(s, 1, Len(s) - 1)) ELSE s

Trim(s) == TrimRight(TrimLeft(s))

\* s.replace(/\s+/g, ' ')
RECURSIVE CollapseSpaces(_)
CollapseSpaces(s) ==
    IF s = << >> THEN << >>
    ELSE IF IsSpace(Head(s))
         THEN <<32>> \o CollapseSpaces(TrimLeft(s))
         ELSE <<Head(s)>> \o CollapseSpaces(Tail(s))

\* s.split(/\s+/): the pieces between the maximal runs of whitespace; a run at
\* either end leaves an empty piece there, and "" splits into [""].
RECURSIVE SplitFrom(_, _)
SplitFrom(s, cur) ==
    IF s = << >> THEN <<cur>>
    ELSE IF IsSpace(Head(s))
         THEN <<cur>> \o SplitFrom(TrimLeft(s), << >>)
         ELSE SplitFrom(Tail(s), Append(cur, Head(s)))

SplitWs(s) == SplitFrom(s, << >>)

\* array.join(' ')
RECURSIVE JoinSp(_)
JoinSp(ws) ==
    IF ws = << >> THEN << >>
    ELSE IF Len(ws) = 1 THEN ws[1]
    ELSE ws[1] \o <<32>> \o JoinSp(Tail(ws))

(***************************************************************************)
(* TextNormalizer                                                          *)
(***************************************************************************)

\* FULLWIDTH_CHAR_MAP: fullwidth digits and Latin letters (a constant offset
\* to ASCII) and the listed punctuation; FULLWIDTH_CHAR_MAP[char] || char.
FullwidthCharMap(c) ==
    IF c \in 65296..65305 \/ c \in 65313..65338 \/ c \in 65345..65370
    THEN c - 65248
    ELSE CASE c = 65281 -> 33   [] c = 65311 -> 63   [] c = 12288 -> 32
           [] c = 65292 -> 44   [] c = 65294 -> 46   [] c = 65306 -> 58
           [] c = 65307 -> 59   [] c = 65288 -> 40   [] c = 65289 -> 41
           [] c \in 12300..12303 -> 34
           [] c = 12304 -> 91   [] c = 12305 -> 93
           [] c = 12296 -> 60   [] c = 12297 -> 62
           [] c = 65371 -> 123  [] c = 65373 -> 125
           [] c = 65291 -> 43   [] c = 65293 -> 45   [] c = 65309 -> 61
           [] c = 65290 -> 42   [] c = 65295 -> 47   [] c = 65340 -> 92
           [] c = 65372 -> 124  [] c = 65343 -> 95   [] c = 65312 -> 64
           [] c = 65283 -> 35   [] c = 65284 -> 36   [] c = 65285 -> 37
           [] c = 65286 -> 38   [] c = 65342 -> 94   [] c = 65374 -> 126
           [] c = 65344 -> 96
           [] OTHER -> c

fullwidthToHalfwidth(s) == MapStr(FullwidthCharMap, s)

\* The conversion with a range that ends at U+30F4 and leaves out the small
\* KA and KE.
KatakanaToHiraganaCharToVu(c) == IF c \in 12449..12532 THEN c - 96 ELSE c

\* /[ァ-ヶ]/ -> code - KATAKANA_OFFSET (0x60)
KatakanaToHiraganaChar(c) == IF c \in 12449..12534 THEN c - 96 ELSE c

katakanaToHiragana(s) == MapStr(KatakanaToHiraganaChar, s)

\* /[ぁ-ゖ]/ -> code + KATAKANA_OFFSET (0x60)
HiraganaToKatakanaChar(c) == IF c \in 12353..12438 THEN c + 96 ELSE c

hiraganaToKatakana(s) == MapStr(HiraganaToKatakanaChar, s)

\* /[^\w\s぀-ゟ゠-ヿ一-龯]/g -> ' '
RemoveSymbolChar(c) ==
    IF \/ IsWordChar(c)
       \/ IsSpace(c)
       \/ c \in 12352..12447
       \/ c \in 12448..12543
       \/ c \in 19968..40879
    THEN c
    ELSE 32

removeSymbols(s) == MapStr(RemoveSymbolChar, s)

\* normalize with the symbols removed after the whitespace collapse and
\* trim instead of before them.
normalizeSymbolsLast(s, doRemoveSymbols) ==
    Let(Trim(CollapseSpaces(katakanaToHiragana(fullwidthToHalfwidth(ToLowerCase(s))))),
        LAMBDA kana : IF doRemoveSymbols THEN removeSymbols(kana) ELSE kana)

\* normalize(text, options) with the options the two presets pass: lower
\* case, unifyWidth, unifyKana, then removeSymbols when asked, then the
\* whitespace collapse and trim.
normalize(s, doRemoveSymbols) ==
    Let(katakanaToHiragana(fullwidthToHalfwidth(ToLowerCase(s))), LAMBDA kana :
        Trim(CollapseSpaces(IF doRemoveSymbols THEN removeSymbols(kana) ELSE kana)))

\* The replace chain of the first normalizeSymbols(text) of the class:
\* ！ ？ ， ． ： ； （ ） to their ASCII marks, 「」『』 to ", 【】 to [, 〈〉 to <.
NormalizeSymbolChar(c) ==
    CASE c = 65281 -> 33   [] c = 65311 -> 63   [] c = 65292 -> 44
      [] c = 65294 -> 46   [] c = 65306 -> 58   [] c = 65307 -> 59
      [] c = 65288 -> 40   [] c = 65289 -> 41
      [] c \in 12300..12303 -> 34
      [] c \in 12304..12305 -> 91
      [] c \in 12296..12297 -> 60
      [] OTHER -> c

\* SymbolNormalizationOptions = {}: no key set.
NoSymbolOptions == [normalizeSymbols |-> FALSE, removeSymbols |-> FALSE]

\* The class declares static normalizeSymbols twice; the later declaration,
\* normalizeSymbols(text, options = {}), replaces the earlier one, so it is
\* the method every call reaches, its own call
\* TextNormalizer.normalizeSymbols(result) included (with options = {}).
RECURSIVE normalizeSymbols(_, _)
normalizeSymbols(text, options) ==
    Let(IF options.normalizeSymbols THEN normalizeSymbols(text, NoSymbolOptions)
        ELSE text,
        LAMBDA result :
            IF options.removeSymbols THEN removeSymbols(result) ELSE result)

\* normalize(text, {symbols}): no case, width or kana step, the symbol step,
\* then the whitespace collapse and trim.
normalizeSymbolsOption(text, symbols) ==
    Trim(CollapseSpaces(normalizeSymbols(text, symbols)))

normalizeForSearch(s) == normalize(s, TRUE)

normalizeForPartialMatch(s) == normalize(s, FALSE)

(***************************************************************************)
(* Scores: exact rationals <<n, d>>, d > 0, in lowest terms.               *)
(***************************************************************************)

RECURSIVE Gcd(_, _)
Gcd(a, b) == IF b = 0 THEN a ELSE Gcd(b, a % b)

Abs(a) == IF a < 0 THEN -a ELSE a

Rat(n, d) ==
    Let(Gcd(Abs(n), d), LAMBDA g : IF n = 0 THEN <<0, 1>> ELSE <<n \div g, d \div g>>)

RZero == Rat(0, 1)

ROne == Rat(1, 1)

RAdd(a, b) == Rat(a[1] * b[2] + b[1] * a[2], a[2] * b[2])

RMul(a, b) == Rat(a[1] * b[1], a[2] * b[2])

\* a / k for an integer k > 0
RDivInt(a, k) == Rat(a[1], a[2] * k)

RLess(a, b) == a[1] * b[2] < b[1] * a[2]

RLeq(a, b) == a[1] * b[2] <= b[1] * a[2]

RMax(a, b) == IF RLess(a, b) THEN b ELSE a

RECURSIVE RSum(_)
RSum(rs) == IF rs = << >> THEN RZero ELSE RAdd(Head(rs), RSum(Tail(rs)))

(***************************************************************************)
(* FuzzySearch                                                             *)
(***************************************************************************)

\* bestDistance = Infinity
Infinity == 2147483647

\* A row computed without the substitution case of the minimum.
RECURSIVE LevRowNoSubstitution(_, _, _, _, _)
LevRowNoSubstitution(prev, i, acc, str1, str2) ==
    LET j == Len(acc)
    IN  IF j > Len(str1) THEN acc
        ELSE LET cell == IF str2[i] = str1[j]
                         THEN prev[j]
                         ELSE Min(acc[j] + 1, prev[j + 1] + 1)
             IN  LevRowNoSubstitution(prev, i, Append(acc, cell), str1, str2)

\* One row of the matrix: matrix[i][0] = i, then the recurrence over j.
RECURSIVE LevRow(_, _, _, _, _)
LevRow(prev, i, acc, str1, str2) ==
    LET j == Len(acc)
    IN  IF j > Len(str1) THEN acc
        ELSE LET cell == IF str2[i] = str1[j]
                         THEN prev[j]
                         ELSE Min(Min(prev[j] + 1, acc[j] + 1), prev[j + 1] + 1)
             IN  LevRow(prev, i, Append(acc, cell), str1, str2)

RECURSIVE LevRows(_, _, _, _)
LevRows(prev, i, str1, str2) ==
    IF i > Len(str2) THEN prev
    ELSE LevRows(LevRow(prev, i, <<i>>, str1, str2), i + 1, str1, str2)

\* levenshteinDistance returning the length of str1 when str1 is empty.
levenshteinDistanceEmptyFirst(str1, str2) ==
    IF Len(str1) = 0 THEN Len(str1)
    ELSE IF Len(str2) = 0 THEN Len(str1)
    ELSE LevRows([j \in 1..(Len(str1) + 1) |-> j - 1], 1, str1, str2)[Len(str1) + 1]

levenshteinDistance(str1, str2) ==
    IF Len(str1) = 0 THEN Len(str2)
    ELSE IF Len(str2) = 0 THEN Len(str1)
    ELSE LevRows([j \in 1..(Len(str1) + 1) |-> j - 1], 1, str1, str2)[Len(str1) + 1]

\* calculateSimilarity without the maxLength === 0 return: 1.0 - 0 / 0 is
\* not a number, written <<0, 0>>.
calculateSimilarityUnguarded(str1, str2) ==
    LET maxLength == Max(Len(str1), Len(str2))
    IN  IF maxLength = 0 THEN <<0, 0>>
        ELSE Rat(maxLength - levenshteinDistance(str1, str2), maxLength)

calculateSimilarity(str1, str2) ==
    LET maxLength == Max(Len(str1), Len(str2))
    IN  IF maxLength = 0 THEN ROne
        ELSE Rat(maxLength - levenshteinDistance(str1, str2), maxLength)

\* FuzzySearchOptions with the defaults of match / partialMatch filled in.
FuzzyDefaults ==
    [threshold |-> Rat(3, 5), maxDistance |-> 3, normalizeText |-> TRUE,
     caseSensitive |-> FALSE, includeScore |-> TRUE]

match(query, target, options) ==
    Let(IF options.normalizeText THEN normalizeForSearch(query) ELSE query, LAMBDA q1 :
    Let(IF options.normalizeText THEN normalizeForSearch(target) ELSE target, LAMBDA t1 :
    Let(IF options.caseSensitive THEN q1 ELSE ToLowerCase(q1), LAMBDA normalizedQuery :
    Let(IF options.caseSensitive THEN t1 ELSE ToLowerCase(t1), LAMBDA normalizedTarget :
    Let(levenshteinDistance(normalizedQuery, normalizedTarget), LAMBDA distance :
    Let(calculateSimilarity(normalizedQuery, normalizedTarget), LAMBDA score :
        [text     |-> target,
         score    |-> IF options.includeScore THEN score ELSE RZero,
         distance |-> distance,
         matched  |-> RLeq(options.threshold, score) /\ distance <= options.maxDistance]))))))

\* The double loop of partialMatch over queryWords x targetWords, keeping the
\* best matched pair: k counts the pairs already visited, in loop order.
RECURSIVE BestWordPair(_, _, _, _, _)
BestWordPair(queryWords, targetWords, options, k, best) ==
    IF k >= Len(queryWords) * Len(targetWords) THEN best
    ELSE Let(match(queryWords[(k \div Len(targetWords)) + 1],
                   targetWords[(k % Len(targetWords)) + 1],
                   [options EXCEPT !.includeScore = TRUE]),
             LAMBDA result :
                 BestWordPair(queryWords, targetWords, options, k + 1,
                              IF result.matched /\ RLess(best.score, result.score)
                              THEN [score |-> result.score, distance |-> result.distance]
                              ELSE best))

\* partialMatch without the includes test before the word loop.
partialMatchWordsOnly(query, target, options) ==
    Let(IF options.normalizeText THEN normalizeForPartialMatch(query) ELSE query, LAMBDA q1 :
    Let(IF options.normalizeText THEN normalizeForPartialMatch(target) ELSE target, LAMBDA t1 :
    Let(IF options.caseSensitive THEN q1 ELSE ToLowerCase(q1), LAMBDA normalizedQuery :
    Let(IF options.caseSensitive THEN t1 ELSE ToLowerCase(t1), LAMBDA normalizedTarget :
    Let(BestWordPair(SplitWs(normalizedQuery), SplitWs(normalizedTarget),
                     options, 0, [score |-> RZero, distance |-> Infinity]),
        LAMBDA best :
            [text     |-> target,
             score    |-> best.score,
             distance |-> best.distance,
             matched  |-> RLeq(options.threshold, best.score)])))))

partialMatch(query, target, options) ==
    Let(IF options.normalizeText THEN normalizeForPartialMatch(query) ELSE query, LAMBDA q1 :
    Let(IF options.normalizeText THEN normalizeForPartialMatch(target) ELSE target, LAMBDA t1 :
    Let(IF options.caseSensitive THEN q1 ELSE ToLowerCase(q1), LAMBDA normalizedQuery :
    Let(IF options.caseSensitive THEN t1 ELSE ToLowerCase(t1), LAMBDA normalizedTarget :
        IF Includes(normalizedTarget, normalizedQuery)
        THEN [text |-> target, score |-> ROne, distance |-> 0, matched |-> TRUE]
        ELSE Let(BestWordPair(SplitWs(normalizedQuery), SplitWs(normalizedTarget),
                              options, 0, [score |-> RZero, distance |-> Infinity]),
                 LAMBDA best :
                     [text     |-> target,
                      score    |-> best.score,
                      distance |-> best.distance,
                      matched  |-> RLeq(options.threshold, best.score)])))))

\* The fold of multiQueryOrMatch from result k on:
\* current.score > best.score ? current : best
RECURSIVE BestResultFrom(_, _, _)
BestResultFrom(results, k, best) ==
    IF k > Len(results) THEN best
    ELSE BestResultFrom(results, k + 1,
                        IF RLess(best.score, results[k].score) THEN results[k] ELSE best)

\* Math.max(...distances); Math.max() is -Infinity.
RECURSIVE MaxDistanceFrom(_, _, _)
MaxDistanceFrom(results, k, greatest) ==
    IF k > Len(results) THEN greatest
    ELSE MaxDistanceFrom(results, k + 1, Max(greatest, results[k].distance))

\* What a call comes to: the value it returns, or an exception.
ReturnValue(value) == [throws |-> FALSE, value |-> value]

Thrown == [throws |-> TRUE]

\* multiQueryMatch; the mean over no results is 0 / 0, NaN, written <<0, 0>>.
multiQueryMatch(queries, target, options) ==
    Let([k \in 1..Len(queries) |-> partialMatch(queries[k], target, options)],
        LAMBDA results :
            IF ~(\A k \in 1..Len(results) : results[k].matched)
            THEN ReturnValue([text |-> target, score |-> RZero, distance |-> Infinity,
                           matched |-> FALSE])
            ELSE ReturnValue([text     |-> target,
                           score    |-> IF Len(results) = 0 THEN <<0, 0>>
                                        ELSE RDivInt(RSum([k \in 1..Len(results) |->
                                                              results[k].score]),
                                                     Len(results)),
                           distance |-> MaxDistanceFrom(results, 1, -Infinity),
                           matched  |-> TRUE]))

\* multiQueryOrMatch; reduce without an initial value throws a TypeError on
\* an empty array.
multiQueryOrMatch(queries, target, options) ==
    Let([k \in 1..Len(queries) |-> partialMatch(queries[k], target, options)],
        LAMBDA results :
            IF Len(results) = 0 THEN Thrown
            ELSE ReturnValue(BestResultFrom(results, 2, results[1])))

\* Array.prototype.sort with a comparator, which is stable: Before(a, b) says
\* that the comparator puts a strictly before b.  The element at index k ends
\* up behind the elements that come before it and behind the earlier ones it
\* ties with.
SortRank(Before(_, _), xs, k) ==
    1 + Cardinality({j \in 1..Len(xs) :
                        \/ Before(xs[j], xs[k])
                        \/ (j < k /\ ~Before(xs[k], xs[j]))})

SortBy(Before(_, _), xs) ==
    [p \in 1..Len(xs) |-> xs[CHOOSE k \in 1..Len(xs) : SortRank(Before, xs, k) = p]]

SpanStartsBefore(a, b) == a.start < b.start

(***************************************************************************)
(* mergeOverlappingMatches                                                 *)
(***************************************************************************)

\* The loop with current.start < last.end for its test: a span that starts
\* where the last one ends is pushed.
RECURSIVE MergeFromStrict(_, _, _)
MergeFromStrict(sorted, i, merged) ==
    IF i > Len(sorted) THEN merged
    ELSE LET current == sorted[i]
             last == merged[Len(merged)]
         IN  IF current.start < last.end
             THEN MergeFromStrict(sorted, i + 1,
                      [merged EXCEPT ![Len(merged)] =
                          [last EXCEPT !.end = Max(last.end, current.end),
                                       !.score = RMax(last.score, current.score)]])
             ELSE MergeFromStrict(sorted, i + 1, Append(merged, current))

\* for (let i = 1; i < sorted.length; i++): i counts from 2 here, the
\* sequences being 1-based.
RECURSIVE MergeFrom(_, _, _)
MergeFrom(sorted, i, merged) ==
    IF i > Len(sorted) THEN merged
    ELSE LET current == sorted[i]
             last == merged[Len(merged)]
         IN  IF current.start <= last.end
             THEN MergeFrom(sorted, i + 1,
                      [merged EXCEPT ![Len(merged)] =
                          [last EXCEPT !.end = Max(last.end, current.end),
                                       !.score = RMax(last.score, current.score)]])
             ELSE MergeFrom(sorted, i + 1, Append(merged, current))

mergeOverlappingMatches(matches) ==
    IF Len(matches) = 0 THEN << >>
    ELSE Let(SortBy(SpanStartsBefore, matches), LAMBDA sorted :
             MergeFrom(sorted, 2, <<sorted[1]>>))

(***************************************************************************)
(* generateHighlight as one function                                       *)
(***************************************************************************)

\* The test with index > h.start for its second half: an occurrence that
\* starts where a recorded span starts passes.
OverlapsInside(highlighted, index, length) ==
    \E k \in 1..Len(highlighted) :
        index < highlighted[k].end /\ index > highlighted[k].start

\* index < h.end && index + word.length > h.start, for some recorded h
Overlaps(highlighted, index, length) ==
    \E k \in 1..Len(highlighted) :
        index < highlighted[k].end /\ index + length > highlighted[k].start

\* The first while (true) loop of generateHighlight.  A run that ends makes
\* at most text.length + 1 turns (startIndex grows by at least one a turn
\* and an index is at most text.length), so `fuel` turns without a break
\* mean that the loop never ends: diverges is TRUE.
RECURSIVE ExactLoop(_, _, _, _, _)
ExactLoop(normalizedText, normalizedQuery, startIndex, highlighted, fuel) ==
    Let(IndexOf(normalizedText, normalizedQuery, startIndex), LAMBDA index :
        IF index = -1 THEN [diverges |-> FALSE, highlighted |-> highlighted]
        ELSE IF fuel = 0 THEN [diverges |-> TRUE, highlighted |-> highlighted]
        ELSE ExactLoop(normalizedText, normalizedQuery, index + 1,
                       Append(highlighted,
                              [start |-> index,
                               end   |-> index + Len(normalizedQuery),
                               score |-> ROne]),
                       fuel - 1))

\* The inner while (true) loop, for one word of the query.
RECURSIVE WordLoop(_, _, _, _, _)
WordLoop(normalizedText, word, startIndex, highlighted, fuel) ==
    Let(IndexOf(normalizedText, word, startIndex), LAMBDA index :
        IF index = -1 THEN [diverges |-> FALSE, highlighted |-> highlighted]
        ELSE IF fuel = 0 THEN [diverges |-> TRUE, highlighted |-> highlighted]
        ELSE WordLoop(normalizedText, word, index + 1,
                      IF Overlaps(highlighted, index, Len(word))
                      THEN highlighted
                      ELSE Append(highlighted,
                                  [start |-> index,
                                   end   |-> index + Len(word),
                                   score |-> Rat(4, 5)]),
                      fuel - 1))

\* for (const word of queryWords)
RECURSIVE WordsLoop(_, _, _, _)
WordsLoop(normalizedText, queryWords, w, highlighted) ==
    IF w > Len(queryWords) THEN [diverges |-> FALSE, highlighted |-> highlighted]
    ELSE Let(WordLoop(normalizedText, queryWords[w], 0, highlighted,
                      Len(normalizedText) + 2),
             LAMBDA r : IF r.diverges THEN r
                        ELSE WordsLoop(normalizedText, queryWords, w + 1, r.highlighted))

\* generateHighlight(query, text) with its default options (normalizeText,
\* not caseSensitive), as every caller uses it.
generateHighlight(query, text) ==
    Let(ToLowerCase(normalizeForPartialMatch(query)), LAMBDA normalizedQuery :
    Let(ToLowerCase(normalizeForPartialMatch(text)), LAMBDA normalizedText :
    Let(ExactLoop(normalizedText, normalizedQuery, 0, << >>, Len(normalizedText) + 2),
        LAMBDA exact :
            IF exact.diverges THEN [diverges |-> TRUE, highlighted |-> << >>]
            ELSE Let(WordsLoop(normalizedText, SplitWs(normalizedQuery), 1,
                               exact.highlighted),
                     LAMBDA words :
                         IF words.diverges THEN [diverges |-> TRUE, highlighted |-> << >>]
                         ELSE [diverges    |-> FALSE,
                               highlighted |-> SortBy(SpanStartsBefore,
                                                      words.highlighted)]))))

(***************************************************************************)
(* SearchEngine: ranked multi-field text search                            *)
(***************************************************************************)

\* The highlights a matched field reports: none unless includeHighlights.
FieldHighlights(query, fieldValue, includeHighlights) ==
    IF includeHighlights THEN generateHighlight(query, fieldValue)
    ELSE [diverges |-> FALSE, highlighted |-> << >>]

\* matchedWords: the query words that some field word includes.
MatchedWords(queryWords, fieldWords) ==
    Cardinality({i \in 1..Len(queryWords) :
                    \E j \in 1..Len(fieldWords) : Includes(fieldWords[j], queryWords[i])})

\* What searchField returns for a field that matched with a score:
\* highlights are generated then, when asked for.
FieldHit(query, fieldValue, options, score) ==
    Let(FieldHighlights(query, fieldValue, options.includeHighlights), LAMBDA hl :
        [matched |-> TRUE, score |-> score, highlights |-> hl.highlighted,
         fuzzyScore |-> score, diverges |-> hl.diverges])

searchField(query, fieldValue, options) ==
    Let(IF options.useNormalization THEN normalizeForSearch(query) ELSE query,
        LAMBDA normalizedQuery :
    Let(IF options.useNormalization THEN normalizeForSearch(fieldValue) ELSE fieldValue,
        LAMBDA normalizedField :
        IF Includes(ToLowerCase(normalizedField), ToLowerCase(normalizedQuery))
        THEN FieldHit(query, fieldValue, options, ROne)
        ELSE Let(IF options.useFuzzySearch
                 THEN partialMatch(normalizedQuery, normalizedField,
                                   [FuzzyDefaults EXCEPT
                                      !.threshold = options.fuzzyThreshold,
                                      !.normalizeText = FALSE,
                                      !.caseSensitive = FALSE])
                 ELSE [matched |-> FALSE],
                 LAMBDA fuzzyResult :
                     IF fuzzyResult.matched
                     THEN FieldHit(query, fieldValue, options, fuzzyResult.score)
                     ELSE Let(Rat(MatchedWords(SplitWs(normalizedQuery),
                                               SplitWs(normalizedField)),
                                  Len(SplitWs(normalizedQuery))),
                              LAMBDA wordMatchScore :
                                  IF RLess(Rat(1, 2), wordMatchScore)
                                  THEN FieldHit(query, fieldValue, options, wordMatchScore)
                                  ELSE [matched |-> FALSE, score |-> RZero,
                                        highlights |-> << >>, fuzzyScore |-> RZero,
                                        diverges |-> FALSE]))))

\* The five weighted fields of a memo, in the order searchMemo visits them.
MemoFields(memo) ==
    << [name |-> "content",  value |-> memo.content,          weight |-> Rat(1, 1)],
       [name |-> "tags",     value |-> JoinSp(memo.tags),     weight |-> Rat(4, 5)],
       [name |-> "category", value |-> memo.category,         weight |-> Rat(3, 5)],
       [name |-> "summary",  value |-> memo.summary,          weight |-> Rat(7, 10)],
       [name |-> "keywords", value |-> JoinSp(memo.keywords), weight |-> Rat(9, 10)] >>

\* The body of `if (fieldResult.matched)`: the locals of searchMemo after a
\* field that matched.
FieldMatched(acc, field, fieldResult, weightedScore, includeHighlights) ==
    [acc EXCEPT
       !.totalScore = RAdd(@, weightedScore),
       !.maxScore = RMax(@, weightedScore),
       !.matchedFields = Append(@, field.name),
       !.fuzzyScore = RMax(@, fieldResult.fuzzyScore),
       !.highlights = IF includeHighlights /\ fieldResult.highlights # << >>
                      THEN Append(@, [field |-> field.name,
                                      positions |-> fieldResult.highlights])
                      ELSE @]

\* The loop of searchMemo over the fields, from field k on; acc is the state
\* of its local variables.  A field whose highlight loop never ends stops
\* the walk there.
RECURSIVE SearchFieldsFrom(_, _, _, _, _)
SearchFieldsFrom(fields, k, query, options, acc) ==
    IF k > Len(fields) THEN acc
    ELSE IF fields[k].value = << >> THEN SearchFieldsFrom(fields, k + 1, query, options, acc)
    ELSE Let(searchField(query, fields[k].value, options), LAMBDA fieldResult :
             IF ~fieldResult.matched
             THEN SearchFieldsFrom(fields, k + 1, query, options, acc)
             ELSE IF fieldResult.diverges THEN [acc EXCEPT !.diverges = TRUE]
             ELSE SearchFieldsFrom(fields, k + 1, query, options,
                      FieldMatched(acc, fields[k], fieldResult,
                                   RMul(fieldResult.score, fields[k].weight),
                                   options.includeHighlights)))

\* searchMemo with the sum of the weighted scores for its score in every
\* mode.
searchMemoSum(memo, query, options) ==
    Let(SearchFieldsFrom(MemoFields(memo), 1, query, options,
            [totalScore |-> RZero, maxScore |-> RZero, matchedFields |-> << >>,
             fuzzyScore |-> RZero, highlights |-> << >>, diverges |-> FALSE]),
        LAMBDA acc :
            [matched       |-> acc.matchedFields # << >>,
             score         |-> acc.totalScore,
             highlights    |-> acc.highlights,
             fuzzyScore    |-> acc.fuzzyScore,
             matchedFields |-> acc.matchedFields,
             diverges      |-> acc.diverges])

searchMemo(memo, query, options) ==
    Let(SearchFieldsFrom(MemoFields(memo), 1, query, options,
            [totalScore |-> RZero, maxScore |-> RZero, matchedFields |-> << >>,
             fuzzyScore |-> RZero, highlights |-> << >>, diverges |-> FALSE]),
        LAMBDA acc :
            [matched       |-> acc.matchedFields # << >>,
             score         |-> IF options.searchMode = "hybrid"
                               THEN RDivInt(RAdd(acc.totalScore, acc.maxScore), 2)
                               ELSE acc.totalScore,
             highlights    |-> acc.highlights,
             fuzzyScore    |-> acc.fuzzyScore,
             matchedFields |-> acc.matchedFields,
             diverges      |-> acc.diverges])

\* A caller's options object: `given` names the keys it holds; a key it does
\* not hold takes the callee's default (destructuring default, or `||`).
Opt(options, key, default) == IF key \in options.given THEN options[key] ELSE default

\* The comparator with its operands exchanged: the lowest rankScore first.
RanksBeforeAscending(a, b) == RLess(a.rankScore, b.rankScore)

\* (b.rankScore || 0) - (a.rankScore || 0) < 0
RanksBefore(a, b) == RLess(b.rankScore, a.rankScore)

\* slice(0, maxResults - 1): a list cut one short.
SliceOneShort(xs, n) == SubSeq(xs, 1, Min(Len(xs), Max(n - 1, 0)))

\* results.slice(0, maxResults)
Slice(xs, n) == SubSeq(xs, 1, Min(Len(xs), Max(n, 0)))

\* The for loop of enhancedTextSearch from memo k on.
RECURSIVE TextSearchFrom(_, _, _, _, _)
TextSearchFrom(memos, k, normalizedQuery, memoOptions, results) ==
    IF k > Len(memos) THEN [diverges |-> FALSE, results |-> results]
    ELSE Let(searchMemo(memos[k], normalizedQuery, memoOptions), LAMBDA searchResult :
             IF searchResult.diverges THEN [diverges |-> TRUE, results |-> << >>]
             ELSE TextSearchFrom(memos, k + 1, normalizedQuery, memoOptions,
                    IF searchResult.matched
                    THEN Append(results,
                                [memo          |-> memos[k],
                                 searchType    |-> "text",
                                 rankScore     |-> searchResult.score,
                                 highlights    |-> searchResult.highlights,
                                 fuzzyScore    |-> searchResult.fuzzyScore,
                                 matchedFields |-> searchResult.matchedFields])
                    ELSE results))

enhancedTextSearch(memos, query, options) ==
    IF Trim(query) = << >> THEN [diverges |-> FALSE, results |-> << >>]
    ELSE Let(TextSearchFrom(memos, 1,
                 IF Opt(options, "useNormalization", TRUE)
                 THEN normalizeForSearch(query) ELSE query,
                 [useNormalization  |-> Opt(options, "useNormalization", TRUE),
                  useFuzzySearch    |-> Opt(options, "useFuzzySearch", FALSE),
                  fuzzyThreshold    |-> Opt(options, "fuzzyThreshold", Rat(7, 10)),
                  searchMode        |-> Opt(options, "searchMode", "hybrid"),
                  includeHighlights |-> Opt(options, "includeHighlights", TRUE)],
                 << >>),
             LAMBDA found :
                 IF found.diverges THEN found
                 ELSE [diverges |-> FALSE,
                       results  |-> Slice(SortBy(RanksBefore, found.results),
                                          Opt(options, "maxResults", 20))])

(***************************************************************************)
(* SearchEngine: tag search                                                *)
(***************************************************************************)

\* One turn of the loop of searchTags: how one tag matches the query.
TagMatch(tag, query, options) ==
    Let(normalizeForSearch(tag), LAMBDA normalizedTag :
        IF normalizedTag = query
        THEN [tagMatched |-> TRUE, tagScore |-> ROne, fuzzy |-> RZero]
        ELSE IF options.partial /\ Includes(normalizedTag, query)
        THEN [tagMatched |-> TRUE, tagScore |-> Rat(4, 5), fuzzy |-> RZero]
        ELSE Let(IF options.fuzzy
                 THEN match(query, normalizedTag,
                            [FuzzyDefaults EXCEPT !.threshold = options.threshold,
                                                  !.normalizeText = FALSE])
                 ELSE [matched |-> FALSE],
                 LAMBDA fuzzyResult :
                     IF fuzzyResult.matched
                     THEN [tagMatched |-> TRUE, tagScore |-> fuzzyResult.score,
                           fuzzy |-> fuzzyResult.score]
                     ELSE [tagMatched |-> FALSE, tagScore |-> RZero, fuzzy |-> RZero]))

RECURSIVE TagsFrom(_, _, _, _, _)
TagsFrom(tags, k, query, options, acc) ==
    IF k > Len(tags) THEN acc
    ELSE Let(TagMatch(tags[k], query, options), LAMBDA m :
             TagsFrom(tags, k + 1, query, options,
                IF m.tagMatched
                THEN [matchedTags   |-> Append(acc.matchedTags, tags[k]),
                      totalScore    |-> RAdd(acc.totalScore, m.tagScore),
                      maxFuzzyScore |-> RMax(acc.maxFuzzyScore, m.fuzzy)]
                ELSE acc))

\* searchTags with the mode 'all' asking for every tag to match.
searchTagsAllStrict(tags, query, options) ==
    Let(TagsFrom(tags, 1, query, options,
                 [matchedTags |-> << >>, totalScore |-> RZero, maxFuzzyScore |-> RZero]),
        LAMBDA acc :
            [matched     |-> CASE options.mode = "exact" -> Len(acc.matchedTags) = Len(tags)
                               [] options.mode = "all"   -> Len(acc.matchedTags) = Len(tags)
                               [] OTHER                  -> Len(acc.matchedTags) > 0,
             score       |-> IF Len(acc.matchedTags) > 0
                             THEN RDivInt(acc.totalScore, Len(acc.matchedTags))
                             ELSE RZero,
             fuzzyScore  |-> acc.maxFuzzyScore,
             matchedTags |-> acc.matchedTags])

searchTags(tags, query, options) ==
    Let(TagsFrom(tags, 1, query, options,
                 [matchedTags |-> << >>, totalScore |-> RZero, maxFuzzyScore |-> RZero]),
        LAMBDA acc :
            [matched     |-> CASE options.mode = "exact" -> Len(acc.matchedTags) = Len(tags)
                               [] options.mode = "all"   -> Len(acc.matchedTags) > 0
                               [] OTHER                  -> Len(acc.matchedTags) > 0,
             score       |-> IF Len(acc.matchedTags) > 0
                             THEN RDivInt(acc.totalScore, Len(acc.matchedTags))
                             ELSE RZero,
             fuzzyScore  |-> acc.maxFuzzyScore,
             matchedTags |-> acc.matchedTags])

RECURSIVE TagSearchFrom(_, _, _, _, _)
TagSearchFrom(memos, k, normalizedQuery, tagOptions, results) ==
    IF k > Len(memos) THEN results
    ELSE IF memos[k].tags = << >>
    THEN TagSearchFrom(memos, k + 1, normalizedQuery, tagOptions, results)
    ELSE Let(searchTags(memos[k].tags, normalizedQuery, tagOptions), LAMBDA tagResult :
             TagSearchFrom(memos, k + 1, normalizedQuery, tagOptions,
                IF tagResult.matched
                THEN Append(results,
                            [memo          |-> memos[k],
                             searchType    |-> "text",
                             rankScore     |-> tagResult.score,
                             highlights    |-> << >>,
                             fuzzyScore    |-> tagResult.fuzzyScore,
                             matchedFields |-> <<"tags">>])
                ELSE results))

\* enhancedTagSearch without `if (!query.trim()) return []`.
enhancedTagSearchUnguarded(memos, query, options) ==
    [diverges |-> FALSE,
     results  |-> SortBy(RanksBefore,
                         TagSearchFrom(memos, 1, normalizeForSearch(query),
                                       [mode      |-> Opt(options, "mode", "any"),
                                        partial   |-> Opt(options, "partial", TRUE),
                                        fuzzy     |-> Opt(options, "fuzzy", TRUE),
                                        threshold |-> Opt(options, "threshold",
                                                          Rat(7, 10))],
                                       << >>))]

enhancedTagSearch(memos, query, options) ==
    IF Trim(query) = << >> THEN [diverges |-> FALSE, results |-> << >>]
    ELSE [diverges |-> FALSE,
          results  |-> SortBy(RanksBefore,
                              TagSearchFrom(memos, 1, normalizeForSearch(query),
                                            [mode      |-> Opt(options, "mode", "any"),
                                             partial   |-> Opt(options, "partial", TRUE),
                                             fuzzy     |-> Opt(options, "fuzzy", TRUE),
                                             threshold |-> Opt(options, "threshold",
                                                               Rat(7, 10))],
                                            << >>))]

(***************************************************************************)
(* SearchEngine: parseComplexQuery                                         *)
(***************************************************************************)

\* (tag|category|title|content), in the order of the alternation.
FieldNames ==
    << <<116, 97, 103>>,
       <<99, 97, 116, 101, 103, 111, 114, 121>>,
       <<116, 105, 116, 108, 101>>,
       <<99, 111, 110, 116, 101, 110, 116>> >>

FieldLabel(k) == <<"tag", "category", "title", "content">>[k]

\* The end (exclusive offset) of the maximal run of non-whitespace from i.
RECURSIVE RunEnd(_, _)
RunEnd(s, i) == IF i < Len(s) /\ ~IsSpace(s[i + 1]) THEN RunEnd(s, i + 1) ELSE i

\* Which alternative of fieldRegex matches at offset i (0: none): the field
\* name, a colon, and at least one non-whitespace character.
FieldAt(s, i) ==
    Let({k \in 1..Len(FieldNames) :
            /\ OccursAt(s, FieldNames[k] \o <<58>>, i)
            /\ RunEnd(s, i + Len(FieldNames[k]) + 1) > i + Len(FieldNames[k]) + 1},
        LAMBDA ok : IF ok = {} THEN 0 ELSE CHOOSE k \in ok : \A j \in ok : k <= j)

\* One match of fieldRegex: alternative k at offset i, its value running to
\* the next whitespace.
FieldMatch(s, i, k) ==
    Let(RunEnd(s, i + Len(FieldNames[k]) + 1), LAMBDA valueEnd :
        [field |-> FieldLabel(k),
         value |-> Substring(s, i + Len(FieldNames[k]) + 1, valueEnd),
         index |-> i,
         end   |-> valueEnd])

\* fieldRegex without its g flag: exec starts over at offset 0 each time, so
\* a loop that is to end can take the first match only.
RECURSIVE FieldMatchesFirstOnly(_, _)
FieldMatchesFirstOnly(s, i) ==
    IF i >= Len(s) THEN << >>
    ELSE Let(FieldAt(s, i), LAMBDA k :
             IF k = 0 THEN FieldMatchesFirstOnly(s, i + 1)
             ELSE <<FieldMatch(s, i, k)>>)

\* while ((match = fieldRegex.exec(query)) !== null): the matches from
\* lastIndex = i on, leftmost first, each resuming where the last one ended.
RECURSIVE FieldMatches(_, _)
FieldMatches(s, i) ==
    IF i >= Len(s) THEN << >>
    ELSE Let(FieldAt(s, i), LAMBDA k :
             IF k = 0 THEN FieldMatches(s, i + 1)
             ELSE Let(FieldMatch(s, i, k), LAMBDA m : <<m>> \o FieldMatches(s, m.end)))

\* s.replace(regex, replacement) for the matches found (in order, disjoint).
RECURSIVE ReplaceMatches(_, _, _, _)
ReplaceMatches(s, matches, from, replacement) ==
    IF matches = << >> THEN Substring(s, from, Len(s))
    ELSE Substring(s, from, Head(matches).index) \o replacement
         \o ReplaceMatches(s, Tail(matches), Head(matches).end, replacement)

\* const operators = [...], with the type each alias maps to.
OperatorAliases ==
    << <<65, 78, 68>>, <<79, 82>>, <<78, 79, 84>>,
       <<12363, 12388>>, <<12414, 12383, 12399>>, <<38500, 12367>>,
       <<65291>>, <<65372>>, <<65293>> >>

OperatorType(op) ==
    Let(ToUpperCase(op), LAMBDA upper :
        IF upper \in {<<65, 78, 68>>, <<12363, 12388>>, <<65291>>} THEN "AND"
        ELSE IF upper \in {<<79, 82>>, <<12414, 12383, 12399>>, <<65372>>} THEN "OR"
        ELSE IF upper \in {<<78, 79, 84>>, <<38500, 12367>>, <<65293>>} THEN "NOT"
        ELSE "AND")

\* \b at offset i: exactly one of the characters before and after is a \w.
WordBoundary(s, i) ==
    (i > 0 /\ IsWordChar(s[i])) # (i < Len(s) /\ IsWordChar(s[i + 1]))

\* new RegExp(`\\b${op}\\b`, 'gi') matching at offset i.
OperatorAt(s, op, i) ==
    /\ WordBoundary(s, i)
    /\ OccursAt(ToUpperCase(s), ToUpperCase(op), i)
    /\ WordBoundary(s, i + Len(op))

RECURSIVE OperatorMatches(_, _, _)
OperatorMatches(s, op, i) ==
    IF i + Len(op) > Len(s) THEN << >>
    ELSE IF OperatorAt(s, op, i)
         THEN <<[index |-> i, end |-> i + Len(op)]>> \o OperatorMatches(s, op, i + Len(op))
         ELSE OperatorMatches(s, op, i + 1)

\* The first loop over the aliases: the operators pushed, alias by alias.
RECURSIVE OperatorsFrom(_, _)
OperatorsFrom(cleanQuery, k) ==
    IF k > Len(OperatorAliases) THEN << >>
    ELSE Let(OperatorMatches(cleanQuery, OperatorAliases[k], 0), LAMBDA ms :
             [j \in 1..Len(ms) |-> [type     |-> OperatorType(OperatorAliases[k]),
                                     position |-> ms[j].index]]
             \o OperatorsFrom(cleanQuery, k + 1))

\* The second loop: each alias in turn replaced by a space.
RECURSIVE StripOperators(_, _)
StripOperators(cleanQuery, k) ==
    IF k > Len(OperatorAliases) THEN cleanQuery
    ELSE StripOperators(
             ReplaceMatches(cleanQuery, OperatorMatches(cleanQuery, OperatorAliases[k], 0),
                            0, <<32>>),
             k + 1)

\* /"([^"]+)"/g from offset i: a quote, one or more non-quotes, a quote.
RECURSIVE QuoteEnd(_, _)
QuoteEnd(s, i) == IF i < Len(s) /\ s[i + 1] # 34 THEN QuoteEnd(s, i + 1) ELSE i

RECURSIVE QuotedMatches(_, _)
QuotedMatches(s, i) ==
    IF i >= Len(s) THEN << >>
    ELSE Let(QuoteEnd(s, i + 1), LAMBDA close :
             IF s[i + 1] = 34 /\ close > i + 1 /\ close < Len(s)
             THEN <<[index |-> i, end |-> close + 1,
                     phrase |-> Substring(s, i + 1, close)]>>
                  \o QuotedMatches(s, close + 1)
             ELSE QuotedMatches(s, i + 1))

\* The values pushed for one field name, in order.
ValuesOf(clauses, field) ==
    Let(SelectSeq(clauses, LAMBDA c : c.field = field), LAMBDA cs :
        [j \in 1..Len(cs) |-> cs[j].value])

\* query.replace(fieldRegex, '').trim(): the working string the operators
\* are looked up in.
CleanQuery(query) == Trim(ReplaceMatches(query, FieldMatches(query, 0), 0, << >>))

\* The terms: the quoted phrases of the working string without its
\* operators, then what is left of it, split at whitespace.
TermsOf(stripped) ==
    Let(QuotedMatches(stripped, 0), LAMBDA quoted :
        [j \in 1..Len(quoted) |-> quoted[j].phrase]
        \o SelectSeq(SplitWs(ReplaceMatches(stripped, quoted, 0, <<32>>)),
                     LAMBDA term : Len(Trim(term)) > 0))

parseComplexQuery(query) ==
    Let(FieldMatches(query, 0), LAMBDA fields :
    Let(Trim(ReplaceMatches(query, fields, 0, << >>)), LAMBDA cleanQuery :
        [terms        |-> TermsOf(StripOperators(cleanQuery, 1)),
         tags         |-> ValuesOf(fields, "tag"),
         categories   |-> ValuesOf(fields, "category"),
         operators    |-> OperatorsFrom(cleanQuery, 1),
         fieldQueries |-> [j \in 1..Len(fields) |-> [field |-> fields[j].field,
                                                     value |-> fields[j].value]]]))

(***************************************************************************)
(* SearchEngine: complexSearch                                             *)
(***************************************************************************)

evaluateFieldQuery(memo, field, value, options) ==
    IF field \notin {"tag", "category", "title", "content"}
    THEN [matched |-> FALSE, score |-> RZero]
    ELSE Let(normalizeForSearch(value), LAMBDA normalizedValue :
         Let(normalizeForSearch(CASE field = "tag"      -> JoinSp(memo.tags)
                                  [] field = "category" -> memo.category
                                  [] field = "title"    -> << >>
                                  [] field = "content"  -> memo.content),
             LAMBDA normalizedField :
                 IF Includes(normalizedField, normalizedValue)
                 THEN [matched |-> TRUE, score |-> ROne]
                 ELSE Let(IF Opt(options, "useFuzzySearch", FALSE)
                          THEN partialMatch(normalizedValue, normalizedField,
                                   [FuzzyDefaults EXCEPT
                                      !.threshold = Opt(options, "fuzzyThreshold",
                                                        Rat(7, 10))])
                          ELSE [matched |-> FALSE],
                          LAMBDA fuzzyResult :
                              IF fuzzyResult.matched
                              THEN [matched |-> TRUE, score |-> fuzzyResult.score]
                              ELSE [matched |-> FALSE, score |-> RZero])))

\* The loop over parsedQuery.fieldQueries, with its break at the first
\* clause that does not match.
RECURSIVE FieldClausesFrom(_, _, _, _, _)
FieldClausesFrom(memo, fieldQueries, k, options, acc) ==
    IF k > Len(fieldQueries) THEN acc
    ELSE Let(evaluateFieldQuery(memo, fieldQueries[k].field, fieldQueries[k].value,
                                options),
             LAMBDA fieldResult :
                 IF ~fieldResult.matched THEN [acc EXCEPT !.memoMatched = FALSE]
                 ELSE FieldClausesFrom(memo, fieldQueries, k + 1, options,
                          [acc EXCEPT !.totalScore = RAdd(@, fieldResult.score),
                                      !.matchCount = @ + 1]))

\* The loop over parsedQuery.terms.
RECURSIVE TermsFrom(_, _, _, _, _)
TermsFrom(memo, terms, k, memoOptions, acc) ==
    IF k > Len(terms) THEN acc
    ELSE Let(searchMemo(memo, terms[k], memoOptions), LAMBDA termResult :
             IF termResult.diverges THEN [acc EXCEPT !.diverges = TRUE]
             ELSE TermsFrom(memo, terms, k + 1, memoOptions,
                      IF termResult.matched
                      THEN [acc EXCEPT !.totalScore = RAdd(@, termResult.score),
                                       !.matchCount = @ + 1]
                      ELSE acc))

\* The options object complexSearch passes to searchMemo for a free term.
TermOptions(options) ==
    [useNormalization  |-> TRUE,
     useFuzzySearch    |-> Opt(options, "useFuzzySearch", FALSE),
     fuzzyThreshold    |-> Opt(options, "fuzzyThreshold", Rat(7, 10)),
     searchMode        |-> Opt(options, "searchMode", "hybrid"),
     includeHighlights |-> Opt(options, "includeHighlights", FALSE)]

\* One turn of the loop of complexSearch over the memos.
ComplexMemo(memo, parsedQuery, options) ==
    Let(FieldClausesFrom(memo, parsedQuery.fieldQueries, 1, options,
            [memoMatched |-> TRUE, totalScore |-> RZero, matchCount |-> 0,
             diverges |-> FALSE]),
        LAMBDA clauses :
            IF clauses.memoMatched /\ Len(parsedQuery.terms) > 0
            THEN TermsFrom(memo, parsedQuery.terms, 1, TermOptions(options), clauses)
            ELSE clauses)

RECURSIVE ComplexFrom(_, _, _, _, _)
ComplexFrom(memos, k, parsedQuery, options, results) ==
    IF k > Len(memos) THEN [diverges |-> FALSE, results |-> results]
    ELSE Let(ComplexMemo(memos[k], parsedQuery, options), LAMBDA m :
             IF m.diverges THEN [diverges |-> TRUE, results |-> << >>]
             ELSE ComplexFrom(memos, k + 1, parsedQuery, options,
                    IF m.memoMatched /\ m.matchCount > 0
                    THEN Append(results,
                                [memo          |-> memos[k],
                                 searchType    |-> "text",
                                 rankScore     |-> RDivInt(m.totalScore, m.matchCount),
                                 highlights    |-> << >>,
                                 fuzzyScore    |-> RZero,
                                 matchedFields |-> <<"content">>])
                    ELSE results))

\* complexSearch that reads the type of the operators: a query with a NOT
\* returns nothing.
complexSearchNotExcludes(memos, query, options) ==
    Let(parseComplexQuery(query), LAMBDA parsedQuery :
        IF Len(parsedQuery.operators) = 0 /\ Len(parsedQuery.fieldQueries) = 0
        THEN enhancedTextSearch(memos, query, options)
        ELSE IF \E j \in 1..Len(parsedQuery.operators) :
                    parsedQuery.operators[j].type = "NOT"
        THEN [diverges |-> FALSE, results |-> << >>]
        ELSE Let(ComplexFrom(memos, 1, parsedQuery, options, << >>), LAMBDA found :
                 IF found.diverges THEN found
                 ELSE [diverges |-> FALSE,
                       results  |-> SortBy(RanksBefore, found.results)]))

complexSearch(memos, query, options) ==
    Let(parseComplexQuery(query), LAMBDA parsedQuery :
        IF Len(parsedQuery.operators) = 0 /\ Len(parsedQuery.fieldQueries) = 0
        THEN enhancedTextSearch(memos, query, options)
        ELSE Let(ComplexFrom(memos, 1, parsedQuery, options, << >>), LAMBDA found :
                 IF found.diverges THEN found
                 ELSE [diverges |-> FALSE,
                       results  |-> SortBy(RanksBefore, found.results)]))

(***************************************************************************)
(* SuggestionProvider                                                      *)
(***************************************************************************)

\* What awaiting a query of the Supabase client comes to: "data" (rows),
\* "error" ({data: null, error}) or "throws" (the promise rejects).
FetchOutcomes == {"data", "error", "throws"}

\* suggestions.push({id, type, text, description, score, metadata}); the
\* description is left out, metadata.frequency and metadata.lastUsed are 0
\* where the source sets none (both are read with `|| 0`).
Suggestion(id, type, text, score, frequency, lastUsed) ==
    [id |-> id, type |-> type, text |-> text, score |-> score,
     frequency |-> frequency, lastUsed |-> lastUsed]

\* FuzzySearch.partialMatch(normalizedQuery, text, {threshold: fuzzyThreshold,
\* normalizeText: true}) and the suggestion pushed if it matched.
Candidate(id, type, text, normalizedQuery, fuzzyThreshold, frequency, lastUsed) ==
    Let(partialMatch(normalizedQuery, text,
                     [FuzzyDefaults EXCEPT !.threshold = fuzzyThreshold,
                                           !.normalizeText = TRUE]),
        LAMBDA fuzzyResult :
            [matched    |-> fuzzyResult.matched,
             suggestion |-> Suggestion(id, type, text, fuzzyResult.score,
                                       frequency, lastUsed)])

\* The suggestions pushed, in the order of the loop.
Pushed(candidates) ==
    Let(SelectSeq(candidates, LAMBDA c : c.matched), LAMBDA kept :
        [k \in 1..Len(kept) |-> kept[k].suggestion])

\* b.score - a.score < 0
ScoresBefore(a, b) == RLess(b.score, a.score)

\* The keys of a Map in the order of their first set().
RECURSIVE MapKeys(_)
MapKeys(xs) ==
    IF xs = << >> THEN << >>
    ELSE Let(MapKeys(SubSeq(xs, 1, Len(xs) - 1)), LAMBDA rest :
             IF \E i \in 1..Len(rest) : rest[i] = xs[Len(xs)]
             THEN rest ELSE Append(rest, xs[Len(xs)]))

\* frequency.set(x, (frequency.get(x) || 0) + 1) for every x of xs: the
\* entries() of the Map.
FrequencyEntries(xs) ==
    Let(MapKeys(xs), LAMBDA keys :
        [k \in 1..Len(keys) |->
            [key       |-> keys[k],
             frequency |-> Cardinality({i \in 1..Len(xs) : xs[i] = keys[k]})]])

\* The lists of a list, one after the other.
RECURSIVE Flatten(_)
Flatten(lists) ==
    IF lists = << >> THEN << >> ELSE Head(lists) \o Flatten(Tail(lists))

getHistorySuggestions(query, fetch, maxSuggestions, fuzzyThreshold) ==
    IF fetch.outcome = "throws" THEN << >>
    ELSE IF fetch.outcome = "error" THEN << >>
    ELSE Let(normalizeForSearch(query), LAMBDA normalizedQuery :
         Let(Slice(fetch.data, 50), LAMBDA data :
             Slice(SortBy(ScoresBefore,
                          Pushed([k \in 1..Len(data) |->
                              Candidate(<<"history", data[k].query, data[k].executed_at>>,
                                        "history", data[k].query, normalizedQuery,
                                        fuzzyThreshold, 0, data[k].executed_at)])),
                   maxSuggestions)))

\* a.score * 0.7 + (a.metadata?.frequency || 0) * 0.3 / 100
TagRank(a) == RAdd(RMul(a.score, Rat(7, 10)), Rat(3 * a.frequency, 1000))

\* scoreB - scoreA < 0
TagRanksBefore(a, b) == RLess(TagRank(b), TagRank(a))

getTagSuggestions(query, fetch, maxSuggestions, fuzzyThreshold) ==
    IF fetch.outcome = "throws" THEN << >>
    ELSE IF fetch.outcome = "error" THEN << >>
    ELSE Let(FrequencyEntries(Flatten([k \in 1..Len(fetch.data) |-> fetch.data[k].tags])),
             LAMBDA tagFrequency :
         Let(normalizeForSearch(query), LAMBDA normalizedQuery :
             Slice(SortBy(TagRanksBefore,
                          Pushed([k \in 1..Len(tagFrequency) |->
                              Candidate(<<"tag", tagFrequency[k].key>>, "tag",
                                        tagFrequency[k].key, normalizedQuery,
                                        fuzzyThreshold, tagFrequency[k].frequency, 0)])),
                   maxSuggestions)))

\* One of 。 ． ！ ？ \n
IsSentenceEnd(c) == c \in {12290, 65294, 65281, 65311, 10}

\* text.split(/[。．！？\n]/)
RECURSIVE SplitSentences(_, _)
SplitSentences(s, cur) ==
    IF s = << >> THEN <<cur>>
    ELSE IF IsSentenceEnd(Head(s))
         THEN <<cur>> \o SplitSentences(Tail(s), << >>)
         ELSE SplitSentences(Tail(s), Append(cur, Head(s)))

\* What one turn of the loop over the sentences pushes.
PhrasesOfSentence(sentence, query) ==
    Let(normalizeForSearch(query), LAMBDA normalizedQuery :
    Let(SplitWs(sentence), LAMBDA words :
        (IF /\ Includes(normalizeForSearch(sentence), normalizedQuery)
            /\ Len(SplitWs(Trim(sentence))) <= 10
         THEN <<Trim(sentence)>> ELSE << >>)
        \o SelectSeq([i \in 1..(Len(words) - 1) |->
                         JoinSp(SubSeq(words, i, Min(i + 2, Len(words))))],
                     LAMBDA phrase : Len(phrase) > Len(query) /\ Len(phrase) < 50)))

extractPhrases(text, query) ==
    Let(SelectSeq(SplitSentences(text, << >>), LAMBDA s : Len(Trim(s)) > 0),
        LAMBDA sentences :
            MapKeys(Flatten([k \in 1..Len(sentences) |->
                                PhrasesOfSentence(sentences[k], query)])))

\* The candidates of one memo of getContentSuggestions.
ContentCandidates(memo, normalizedQuery, fuzzyThreshold) ==
    Let(extractPhrases(memo.content, normalizedQuery), LAMBDA phrases :
        [k \in 1..Len(phrases) |->
            Candidate(<<"content", memo.id, phrases[k]>>, "content", phrases[k],
                      normalizedQuery, fuzzyThreshold, 0, 0)])

getContentSuggestions(query, fetch, maxSuggestions, fuzzyThreshold) ==
    IF fetch.outcome = "throws" THEN << >>
    ELSE IF fetch.outcome = "error" THEN << >>
    ELSE Let(normalizeForSearch(query), LAMBDA normalizedQuery :
         Let(Slice(fetch.data, 100), LAMBDA data :
             Slice(SortBy(ScoresBefore,
                          Pushed(Flatten([k \in 1..Len(data) |->
                              ContentCandidates(data[k], normalizedQuery,
                                                fuzzyThreshold)]))),
                   maxSuggestions)))

getCategorySuggestions(query, fetch, maxSuggestions, fuzzyThreshold) ==
    IF fetch.outcome = "throws" THEN << >>
    ELSE IF fetch.outcome = "error" THEN << >>
    ELSE Let(FrequencyEntries(Flatten([k \in 1..Len(fetch.data) |->
                 IF fetch.data[k].category # << >>
                 THEN <<fetch.data[k].category>> ELSE << >>])),
             LAMBDA categoryFrequency :
         Let(normalizeForSearch(query), LAMBDA normalizedQuery :
             Slice(SortBy(ScoresBefore,
                          Pushed([k \in 1..Len(categoryFrequency) |->
                              Candidate(<<"category", categoryFrequency[k].key>>,
                                        "category", categoryFrequency[k].key,
                                        normalizedQuery, fuzzyThreshold,
                                        categoryFrequency[k].frequency, 0)])),
                   maxSuggestions)))

getKeywordSuggestions(query, fetch, maxSuggestions, fuzzyThreshold) ==
    IF fetch.outcome = "throws" THEN << >>
    ELSE IF fetch.outcome = "error" THEN << >>
    ELSE Let(FrequencyEntries(Flatten([k \in 1..Len(fetch.data) |->
                                          fetch.data[k].keywords])),
             LAMBDA keywordFrequency :
         Let(normalizeForSearch(query), LAMBDA normalizedQuery :
             Slice(SortBy(ScoresBefore,
                          Pushed([k \in 1..Len(keywordFrequency) |->
                              Candidate(<<"keyword", keywordFrequency[k].key>>,
                                        "keyword", keywordFrequency[k].key,
                                        normalizedQuery, fuzzyThreshold,
                                        keywordFrequency[k].frequency, 0)])),
                   maxSuggestions)))

\* b[1] - a[1] < 0
FrequenciesBefore(a, b) == b.frequency < a.frequency

\* The try block of getRecentSuggestions holds both queries: an exception of
\* either leaves through the one catch.  An error result leaves data null,
\* and the part of that query is passed over.
getRecentSuggestions(fetch) ==
    IF fetch.history.outcome = "throws" \/ fetch.tags.outcome = "throws" THEN << >>
    ELSE (IF fetch.history.outcome = "error" THEN << >>
          ELSE Let(Slice(fetch.history.data, 5), LAMBDA recentSearches :
                   [k \in 1..Len(recentSearches) |->
                       Suggestion(<<"recent-history", recentSearches[k].query>>,
                                  "history", recentSearches[k].query, ROne, 0,
                                  recentSearches[k].executed_at)]))
         \o
         (IF fetch.tags.outcome = "error" THEN << >>
          ELSE Let(Slice(fetch.tags.data, 50), LAMBDA memos50 :
               Let(Slice(SortBy(FrequenciesBefore,
                                FrequencyEntries(Flatten([k \in 1..Len(memos50) |->
                                                             memos50[k].tags]))), 5),
                   LAMBDA popularTags :
                       [k \in 1..Len(popularTags) |->
                           Suggestion(<<"popular-tag", popularTags[k].key>>, "tag",
                                      popularTags[k].key,
                                      Rat(popularTags[k].frequency, 10),
                                      popularTags[k].frequency, 0)])))

\* The value deduped holds for a text after the loop: the first suggestion
\* with that text, replaced by every later one whose score is greater.
RECURSIVE DedupedValue(_, _, _, _)
DedupedValue(suggestions, text, k, existing) ==
    IF k > Len(suggestions) THEN existing
    ELSE DedupedValue(suggestions, text, k + 1,
             IF /\ suggestions[k].text = text
                /\ (existing = << >> \/ RLess(existing[1].score, suggestions[k].score))
             THEN <<suggestions[k]>> ELSE existing)

\* a before b in the order of the code units, as localeCompare has it for
\* strings of lower-case ASCII letters.
RECURSIVE TextBefore(_, _)
TextBefore(a, b) ==
    IF b = << >> THEN FALSE
    ELSE IF a = << >> THEN TRUE
    ELSE IF Head(a) # Head(b) THEN Head(a) < Head(b)
    ELSE TextBefore(Tail(a), Tail(b))

FrequencyBefore(a, b) == b.frequency < a.frequency

AlphabeticalBefore(a, b) == TextBefore(a.text, b.text)

RecentBefore(a, b) == b.lastUsed < a.lastUsed

deduplicateAndSort(suggestions, sortBy) ==
    Let(MapKeys([k \in 1..Len(suggestions) |-> suggestions[k].text]), LAMBDA texts :
    Let([k \in 1..Len(texts) |-> DedupedValue(suggestions, texts[k], 1, << >>)[1]],
        LAMBDA result :
            IF sortBy = "frequency" THEN SortBy(FrequencyBefore, result)
            ELSE IF sortBy = "alphabetical" THEN SortBy(AlphabeticalBefore, result)
            ELSE IF sortBy = "recent" THEN SortBy(RecentBefore, result)
            ELSE SortBy(ScoresBefore, result)))

\* The suggestions of the five sources, in the order they are pushed.
SourceSuggestions(query, fetch, options) ==
    getHistorySuggestions(query, fetch.history,
                          Opt(options, "maxHistorySuggestions", 5),
                          Opt(options, "fuzzyThreshold", Rat(3, 5)))
    \o getTagSuggestions(query, fetch.tags,
                         Opt(options, "maxTagSuggestions", 8),
                         Opt(options, "fuzzyThreshold", Rat(3, 5)))
    \o getContentSuggestions(query, fetch.content,
                             Opt(options, "maxContentSuggestions", 5),
                             Opt(options, "fuzzyThreshold", Rat(3, 5)))
    \o getCategorySuggestions(query, fetch.category,
                              Opt(options, "maxCategorySuggestions", 3),
                              Opt(options, "fuzzyThreshold", Rat(3, 5)))
    \o getKeywordSuggestions(query, fetch.keywords,
                             Opt(options, "maxTagSuggestions", 8),
                             Opt(options, "fuzzyThreshold", Rat(3, 5)))

getSuggestions(query, fetch, options) ==
    IF Trim(query) = << >> THEN getRecentSuggestions(fetch)
    ELSE deduplicateAndSort(SourceSuggestions(query, fetch, options),
                            Opt(options, "sortBy", "score"))

(***************************************************************************)
(* State                                                                   *)
(***************************************************************************)

VARIABLES
    \* a caller of the search engine: the records it holds, its call, where
    \* the call stands ("idle", "returned", "hung") and the list returned
    memos, call, pc, results,
    \* one call of parseComplexQuery
    pqQuery, pqPc, pqResult,
    \* one call of generateHighlight, turn by turn: its arguments, its place
    \* ("called", then "exact" and "exactHit" in the first loop, "words" and
    \* "wordHit" in the second, "done"), its locals normalizedQuery,
    \* normalizedText, queryWords, startIndex, index, the number of the word
    \* of the for loop, and highlighted
    hlQuery, hlText, hlPc, hlNormalizedQuery, hlNormalizedText, hlQueryWords,
    hlStartIndex, hlIndex, hlWord, highlighted,
    \* the memo list and the stores behind it: the clock in milliseconds, the
    \* ids of the rows of the memos table, hiddenMemos of MemoList,
    \* selectedMemoIds of the selection store, pendingDeletions of the undo
    \* store, the timeouts setTimeout holds for it, the toasts on screen, the
    \* server action that the last step called, the pending deletions the user
    \* has asked to undo, and the number of deletions the user has asked for
    undoNow, dbMemos, hiddenMemos, selectedMemoIds, pendingDeletions, timeouts,
    toasts, serverCall, undoPressed, deletions,
    \* a search bar: which component it is, the clock in milliseconds, the
    \* value of the input, suggestionTimeoutRef.current, the timeouts
    \* setTimeout holds, the queries whose suggestions are listed,
    \* showSuggestions, the calls of getSearchSuggestions awaited, and the
    \* call of getSearchSuggestions the last step made; and, to state what
    \* was asked and answered, the calls of getSearchSuggestions in the order
    \* they were made, each with its answer so far
    sbBar, sbNow, sbQuery, suggestionTimeoutRef, sbTimeouts, suggestions,
    showSuggestions, sbInFlight, sbFetch, sbLog,
    \* calls of the library functions one after the other: the arguments of
    \* the first call, and for every call made the function, its arguments
    \* and the value it returned
    fnInput, fnTrace

searchVars == <<memos, call, pc, results>>

parseVars == <<pqQuery, pqPc, pqResult>>

hlArgs == <<hlQuery, hlText>>

hlLocals == <<hlNormalizedQuery, hlNormalizedText, hlQueryWords>>

hlVars == <<hlArgs, hlLocals, hlPc, hlStartIndex, hlIndex, hlWord, highlighted>>

undoVars ==
    <<undoNow, dbMemos, hiddenMemos, selectedMemoIds, pendingDeletions, timeouts,
      toasts, serverCall, undoPressed, deletions>>

sbVars ==
    <<sbBar, sbNow, sbQuery, suggestionTimeoutRef, sbTimeouts, suggestions,
      showSuggestions, sbInFlight, sbFetch, sbLog>>

uiVars == <<undoVars, sbVars>>

fnVars == <<fnInput, fnTrace>>

engineVars == <<searchVars, parseVars, hlVars, fnVars>>

vars == <<searchVars, parseVars, hlVars, uiVars, fnVars>>

\* The parts of the state a specification does not exercise stay as they are
\* before any call.
SearchIdle == memos = << >> /\ call = [op |-> "none"] /\ pc = "idle" /\ results = << >>

ParseIdle == pqQuery = << >> /\ pqPc = "idle" /\ pqResult = [op |-> "none"]

HighlightIdle ==
    /\ hlQuery = << >> /\ hlText = << >> /\ hlPc = "idle"
    /\ hlNormalizedQuery = << >> /\ hlNormalizedText = << >> /\ hlQueryWords = << >>
    /\ hlStartIndex = 0 /\ hlIndex = -1 /\ hlWord = 0 /\ highlighted = << >>

\* No server action called.
NoCall == [fn |-> "none", key |-> [kind |-> "none", n |-> 0], ok |-> TRUE]

UndoIdle ==
    /\ undoNow = 0 /\ dbMemos = {} /\ hiddenMemos = {} /\ selectedMemoIds = {}
    /\ pendingDeletions = {} /\ timeouts = {} /\ toasts = {}
    /\ serverCall = NoCall /\ undoPressed = {} /\ deletions = 0

\* No call of getSearchSuggestions.
NoFetch == [called |-> FALSE, searchQuery |-> << >>]

DebounceIdle ==
    /\ sbBar = "none" /\ sbNow = 0 /\ sbQuery = << >>
    /\ suggestionTimeoutRef = {} /\ sbTimeouts = {} /\ suggestions = {}
    /\ showSuggestions = FALSE /\ sbInFlight = {} /\ sbFetch = NoFetch
    /\ sbLog = << >>

UiIdle == UndoIdle /\ DebounceIdle

FnIdle == fnInput = << >> /\ fnTrace = << >>

EngineIdle == SearchIdle /\ ParseIdle /\ HighlightIdle /\ FnIdle

\* All strings over an alphabet, up to a length.
StringsUpTo(alphabet, n) == UNION {[1..k -> alphabet] : k \in 0..n}

(***************************************************************************)
(* generateHighlight, turn by turn                                         *)
(***************************************************************************)

MaxTextLen == 3

MaxQueryLen == 3

\* 'a', 'b' and the space
HlAlphabet == {97, 98, 32}

\* What the list `highlighted` is kept up to: more than a call that returns
\* ever holds (each loop pushes at most one span per offset of the text).
MaxSpans == (MaxQueryLen + 1) * (MaxTextLen + 2)

PushSpan(list, span) == IF Len(list) < MaxSpans THEN Append(list, span) ELSE list

\* ("machine", "I study machine learning")
MachineExample ==
    <<<<109, 97, 99, 104, 105, 110, 101>>,
      <<73, 32, 115, 116, 117, 100, 121, 32, 109, 97, 99, 104, 105, 110, 101, 32, 108, 101, 97, 114, 110, 105, 110, 103>>>>

\* ("a b", "ba b a"): the query is in the text, and so is each of its words
\* once more.
WordsExample == <<<<97, 32, 98>>, <<98, 97, 32, 98, 32, 97>>>>

InitHighlight ==
    /\ \E args \in (StringsUpTo(HlAlphabet, MaxQueryLen) \X StringsUpTo(HlAlphabet, MaxTextLen))
                        \cup {MachineExample, WordsExample} :
           /\ hlQuery = args[1]
           /\ hlText = args[2]
    /\ hlPc = "called"
    /\ hlNormalizedQuery = << >>
    /\ hlNormalizedText = << >>
    /\ hlQueryWords = << >>
    /\ hlStartIndex = 0
    /\ hlIndex = -1
    /\ hlWord = 0
    /\ highlighted = << >>
    /\ SearchIdle
    /\ ParseIdle
    /\ UiIdle
    /\ FnIdle

\* The normalization of both arguments (normalizeText and !caseSensitive are
\* the defaults) and the split of the query into words.
HlNormalize ==
    /\ hlPc = "called"
    /\ hlNormalizedQuery' = ToLowerCase(normalizeForPartialMatch(hlQuery))
    /\ hlNormalizedText' = ToLowerCase(normalizeForPartialMatch(hlText))
    /\ hlQueryWords' = SplitWs(ToLowerCase(normalizeForPartialMatch(hlQuery)))
    /\ hlPc' = "exact"
    /\ UNCHANGED <<hlArgs, hlStartIndex, hlIndex, hlWord, highlighted, searchVars, parseVars, uiVars, fnVars>>

\* First loop: const index = normalizedText.indexOf(normalizedQuery,
\* startIndex), and the query is there.
HlExactFind ==
    /\ hlPc = "exact"
    /\ IndexOf(hlNormalizedText, hlNormalizedQuery, hlStartIndex) # -1
    /\ hlIndex' = IndexOf(hlNormalizedText, hlNormalizedQuery, hlStartIndex)
    /\ hlPc' = "exactHit"
    /\ UNCHANGED <<hlArgs, hlLocals, hlStartIndex, hlWord, highlighted, searchVars, parseVars, uiVars, fnVars>>

\* if (index === -1) break, then the for loop starts at the first word.
HlExactBreak ==
    /\ hlPc = "exact"
    /\ IndexOf(hlNormalizedText, hlNormalizedQuery, hlStartIndex) = -1
    /\ hlIndex' = -1
    /\ hlPc' = "words"
    /\ hlWord' = 1
    /\ hlStartIndex' = 0
    /\ UNCHANGED <<hlArgs, hlLocals, highlighted, searchVars, parseVars, uiVars, fnVars>>

\* The rest of the turn: push the span, startIndex = index + 1.
HlExactPush ==
    /\ hlPc = "exactHit"
    /\ highlighted' = PushSpan(highlighted,
                               [start |-> hlIndex,
                                end   |-> hlIndex + Len(hlNormalizedQuery),
                                score |-> ROne])
    /\ hlStartIndex' = hlIndex + 1
    /\ hlPc' = "exact"
    /\ UNCHANGED <<hlArgs, hlLocals, hlIndex, hlWord, searchVars, parseVars, uiVars, fnVars>>

\* Inner loop: const index = normalizedText.indexOf(word, startIndex), and
\* the word is there.
HlWordFind ==
    /\ hlPc = "words"
    /\ hlWord <= Len(hlQueryWords)
    /\ IndexOf(hlNormalizedText, hlQueryWords[hlWord], hlStartIndex) # -1
    /\ hlIndex' = IndexOf(hlNormalizedText, hlQueryWords[hlWord], hlStartIndex)
    /\ hlPc' = "wordHit"
    /\ UNCHANGED <<hlArgs, hlLocals, hlStartIndex, hlWord, highlighted, searchVars, parseVars, uiVars, fnVars>>

\* if (index === -1) break, then the next word.
HlWordBreak ==
    /\ hlPc = "words"
    /\ hlWord <= Len(hlQueryWords)
    /\ IndexOf(hlNormalizedText, hlQueryWords[hlWord], hlStartIndex) = -1
    /\ hlIndex' = -1
    /\ hlWord' = hlWord + 1
    /\ hlStartIndex' = 0
    /\ UNCHANGED <<hlArgs, hlLocals, hlPc, highlighted, searchVars, parseVars, uiVars, fnVars>>

\* The rest of the turn: push the span unless it overlaps a recorded one,
\* startIndex = index + 1.
HlWordPush ==
    /\ hlPc = "wordHit"
    /\ highlighted' = IF Overlaps(highlighted, hlIndex, Len(hlQueryWords[hlWord]))
                      THEN highlighted
                      ELSE PushSpan(highlighted,
                                    [start |-> hlIndex,
                                     end   |-> hlIndex + Len(hlQueryWords[hlWord]),
                                     score |-> Rat(4, 5)])
    /\ hlStartIndex' = hlIndex + 1
    /\ hlPc' = "words"
    /\ UNCHANGED <<hlArgs, hlLocals, hlIndex, hlWord, searchVars, parseVars, uiVars, fnVars>>

\* return { text, highlighted: highlighted.sort(...) }
HlReturn ==
    /\ hlPc = "words"
    /\ hlWord > Len(hlQueryWords)
    /\ highlighted' = SortBy(SpanStartsBefore, highlighted)
    /\ hlPc' = "done"
    /\ UNCHANGED <<hlArgs, hlLocals, hlStartIndex, hlIndex, hlWord, searchVars, parseVars, uiVars, fnVars>>

\* A step of a call past its normalization: a turn of a loop, or the return.
HlTurn ==
    \/ HlExactFind
    \/ HlExactBreak
    \/ HlExactPush
    \/ HlWordFind
    \/ HlWordBreak
    \/ HlWordPush
    \/ HlReturn

NextHighlight ==
    \/ HlNormalize
    \/ HlTurn

SpecHighlight == InitHighlight /\ [][NextHighlight]_vars

\* A call that runs keeps running: the function is synchronous and nothing
\* preempts its loops.
SpecHighlightFair == SpecHighlight /\ WF_vars(HlTurn)

(***************************************************************************)
(* parseComplexQuery, one call                                             *)
(***************************************************************************)

MaxTokens == 3

\* The whitespace-delimited tokens the queries are made of:
\*   tag:AI  category:技術  foo  AND  or  Not  かつ  または  除く  ＋  ｜  －
\*   xtag:b (a field name inside a longer word)
ParseTokens ==
    { <<116, 97, 103, 58, 65, 73>>,
      <<99, 97, 116, 101, 103, 111, 114, 121, 58, 25216, 34899>>,
      <<102, 111, 111>>,
      <<65, 78, 68>>, <<111, 114>>, <<78, 111, 116>>,
      <<12363, 12388>>, <<12414, 12383, 12399>>, <<38500, 12367>>,
      <<65291>>, <<65372>>, <<65293>>,
      <<120, 116, 97, 103, 58, 98>> }

ParseQueries == {JoinSp(ts) : ts \in StringsUpTo(ParseTokens, MaxTokens)}

\* The words of the quoted phrases: foo  bar  and  Not  tag:AI  ＋
PhraseWords ==
    { <<102, 111, 111>>, <<98, 97, 114>>, <<97, 110, 100>>, <<78, 111, 116>>,
      <<116, 97, 103, 58, 65, 73>>, <<65291>> }

\* Queries with one double-quoted phrase of up to MaxTokens words, alone,
\* after "foo ", before " bar", or between the two.
QuotedQueries ==
    {before \o <<34>> \o JoinSp(ws) \o <<34>> \o after :
        ws \in StringsUpTo(PhraseWords, MaxTokens) \ {<< >>},
        before \in {<< >>, <<102, 111, 111, 32>>},
        after \in {<< >>, <<32, 98, 97, 114>>}}

InitParse ==
    /\ pqQuery \in ParseQueries \cup QuotedQueries
    /\ pqPc = "called"
    /\ pqResult = [op |-> "none"]
    /\ SearchIdle
    /\ HighlightIdle
    /\ UiIdle
    /\ FnIdle

ParseComplexQuery ==
    /\ pqPc = "called"
    /\ pqResult' = parseComplexQuery(pqQuery)
    /\ pqPc' = "returned"
    /\ UNCHANGED <<pqQuery, searchVars, hlVars, uiVars, fnVars>>

NextParse == ParseComplexQuery

SpecParse == InitParse /\ [][NextParse]_vars

(***************************************************************************)
(* A caller of the search engine: one call on the records it holds         *)
(***************************************************************************)

MaxMemos == 2

\* maxResults = 20
DefaultMaxResults == 20

Memo(id, content, tags, category, summary, keywords) ==
    [id |-> id, content |-> content, tags |-> tags, category |-> category,
     summary |-> summary, keywords |-> keywords]

\* The records the lists are made of (content is never empty: createMemo
\* requires it):
\*   1  content "ab cd", tag x
\*   2  content "ＡＢ" (fullwidth capitals), category x
\*   3  content "cd", tags ab and x, summary "ab", keyword cd
\*   4  content "zz"
MemoPool ==
    { Memo(1, <<97, 98, 32, 99, 100>>, << <<120>> >>, << >>, << >>, << >>),
      Memo(2, <<65313, 65314>>, << >>, <<120>>, << >>, << >>),
      Memo(3, <<99, 100>>, << <<97, 98>>, <<120>> >>, << >>, <<97, 98>>, << <<99, 100>> >>),
      Memo(4, <<122, 122>>, << >>, << >>, << >>, << >>) }

\* n records, one after the other, whose content is "ab".
Fillers(n) == [k \in 1..n |-> Memo(100 + k, <<97, 98>>, << >>, << >>, << >>, << >>)]

\* The lists a caller holds: up to MaxMemos different records of the pool,
\* and the lists of maxResults records followed by one more.
MemoLists ==
    {ms \in StringsUpTo(MemoPool, MaxMemos) :
        \A i, j \in 1..Len(ms) : i # j => ms[i] # ms[j]}
    \cup {Fillers(DefaultMaxResults) \o <<m>> : m \in MemoPool}

\* The queries:  ""  " "  "　"  "ab"  "cd"  "zz"  "!"  "x"
\*   "tag:x"  "tag:x ab"  "tag:x zz"  "category:x cd"  "AND"  "ab AND zz"
\*   "tag:x NOT ab"  "cd or ab"
SearchQueries ==
    { << >>, <<32>>, <<12288>>,
      <<97, 98>>, <<99, 100>>, <<122, 122>>, <<33>>, <<120>>,
      <<116, 97, 103, 58, 120>>,
      <<116, 97, 103, 58, 120, 32, 97, 98>>,
      <<116, 97, 103, 58, 120, 32, 122, 122>>,
      <<99, 97, 116, 101, 103, 111, 114, 121, 58, 120, 32, 99, 100>>,
      <<65, 78, 68>>,
      <<97, 98, 32, 65, 78, 68, 32, 122, 122>>,
      <<116, 97, 103, 58, 120, 32, 78, 79, 84, 32, 97, 98>>,
      <<99, 100, 32, 111, 114, 32, 97, 98>> }

\* The SearchOptions a caller passes besides the query: none; highlights
\* off; what the server actions pass for a text search and for a fuzzy
\* search; a limit of one record.
TextOptions ==
    { [given |-> {}],
      [given |-> {"includeHighlights"}, includeHighlights |-> FALSE],
      [given |-> {"useNormalization", "useFuzzySearch", "fuzzyThreshold", "searchMode",
                  "includeHighlights"},
       useNormalization |-> TRUE, useFuzzySearch |-> TRUE, fuzzyThreshold |-> Rat(7, 10),
       searchMode |-> "hybrid", includeHighlights |-> TRUE],
      [given |-> {"useNormalization", "useFuzzySearch", "fuzzyThreshold", "searchMode",
                  "includeHighlights"},
       useNormalization |-> TRUE, useFuzzySearch |-> TRUE, fuzzyThreshold |-> Rat(7, 10),
       searchMode |-> "fuzzy", includeHighlights |-> TRUE],
      [given |-> {"maxResults"}, maxResults |-> 1] }

\* The TagSearchOptions a caller passes besides the query.
TagOptions ==
    { [given |-> {"mode"}, mode |-> "any"],
      [given |-> {"mode"}, mode |-> "all"],
      [given |-> {"mode"}, mode |-> "exact"],
      [given |-> {"mode", "partial", "fuzzy"}, mode |-> "exact", partial |-> FALSE,
       fuzzy |-> FALSE] }

Init ==
    /\ memos \in MemoLists
    /\ call = [op |-> "none"]
    /\ pc = "idle"
    /\ results = << >>
    /\ ParseIdle
    /\ HighlightIdle
    /\ UiIdle
    /\ FnIdle

\* What a call leaves: the list it returns, or a caller that waits forever.
Outcome(op, query, options, r) ==
    /\ call' = [op |-> op, query |-> query, options |-> options]
    /\ pc' = IF r.diverges THEN "hung" ELSE "returned"
    /\ results' = r.results
    /\ UNCHANGED <<memos, parseVars, hlVars, uiVars, fnVars>>

CallEnhancedTextSearch ==
    /\ pc = "idle"
    /\ \E query \in SearchQueries, options \in TextOptions :
           Outcome("enhancedTextSearch", query, options,
                   enhancedTextSearch(memos, query, options))

CallEnhancedTagSearch ==
    /\ pc = "idle"
    /\ \E query \in SearchQueries, options \in TagOptions :
           Outcome("enhancedTagSearch", query, options,
                   enhancedTagSearch(memos, query, options))

CallComplexSearch ==
    /\ pc = "idle"
    /\ \E query \in SearchQueries, options \in TextOptions :
           Outcome("complexSearch", query, options,
                   complexSearch(memos, query, options))

Next ==
    \/ CallEnhancedTextSearch
    \/ CallEnhancedTagSearch
    \/ CallComplexSearch

Spec == Init /\ [][Next]_vars

(***************************************************************************)
(* Deleting memos with undo: MemoList.handleDelete, useBulkOperations,     *)
(* useUndoStore and the toasts                                             *)
(***************************************************************************)

MaxUndoMemos == 1

MaxUndoTicks == 6

MaxDeletions == 2

UNDO_TIMEOUT == 5000

\* toast.duration || 5000
DefaultToastDuration == 5000

\* The clock moves by a fifth of the grace period.
UndoClockStep == UNDO_TIMEOUT \div 5

UndoMemoIds == 1..MaxUndoMemos

\* The key of a pending deletion: memo.id, or `bulk-${Date.now()}`.
MemoKey(id) == [kind |-> "memo", n |-> id]

BulkKey(now) == [kind |-> "bulk", n |-> now]

\* The toast of handleDelete, with the undo button of a memo. The toasts
\* without a button are left out: nothing can be done with them.
Toast(memo) == [memo |-> memo, removeAt |-> undoNow + DefaultToastDuration]

ClearTimeouts(pending) ==
    {t \in timeouts : \A p \in pending : t.timeoutId # p.timeoutId}

\* addPendingDeletion that leaves the timeout of an existing entry alone.
addPendingDeletionKeepsTimeout(key, onExpire) ==
    LET existing == {p \in pendingDeletions : p.id = key}
        timeoutId == [key |-> key, at |-> undoNow + UNDO_TIMEOUT]
    IN  /\ timeouts' = timeouts \cup
                           {[timeoutId |-> timeoutId, at |-> undoNow + UNDO_TIMEOUT,
                             key |-> key, onExpire |-> onExpire]}
        /\ pendingDeletions' = (pendingDeletions \ existing) \cup
                                   {[id |-> key, timeoutId |-> timeoutId]}

addPendingDeletion(key, onExpire) ==
    LET existing == {p \in pendingDeletions : p.id = key}
        timeoutId == [key |-> key, at |-> undoNow + UNDO_TIMEOUT]
    IN  /\ timeouts' = ClearTimeouts(existing) \cup
                           {[timeoutId |-> timeoutId, at |-> undoNow + UNDO_TIMEOUT,
                             key |-> key, onExpire |-> onExpire]}
        /\ pendingDeletions' = (pendingDeletions \ existing) \cup
                                   {[id |-> key, timeoutId |-> timeoutId]}

InitUndo ==
    /\ undoNow = 0
    /\ dbMemos = UndoMemoIds
    /\ hiddenMemos = {}
    /\ selectedMemoIds = {}
    /\ pendingDeletions = {}
    /\ timeouts = {}
    /\ toasts = {}
    /\ serverCall = NoCall
    /\ undoPressed = {}
    /\ deletions = 0
    /\ DebounceIdle
    /\ EngineIdle

\* MemoList.handleDelete(memo), for a memo on display.
HandleDelete ==
    \E id \in dbMemos \ hiddenMemos :
        /\ deletions < MaxDeletions
        /\ deletions' = deletions + 1
        /\ hiddenMemos' = hiddenMemos \cup {id}
        /\ addPendingDeletion(MemoKey(id),
                              [fn |-> "permanentlyDeleteMemo", memos |-> {id}])
        /\ toasts' = toasts \cup {Toast(id)}
        /\ undoPressed' = undoPressed \ {MemoKey(id)}
        /\ serverCall' = NoCall
        /\ UNCHANGED <<undoNow, dbMemos, selectedMemoIds, sbVars, engineVars>>

\* handleUndo, the onClick of the undo button of a toast of handleDelete.
HandleUndo ==
    \E toast \in toasts :
        /\ hiddenMemos' = hiddenMemos \ {toast.memo}
        /\ undoPressed' = undoPressed \cup {MemoKey(toast.memo)}
        /\ serverCall' = NoCall
        /\ UNCHANGED <<undoNow, dbMemos, selectedMemoIds, pendingDeletions,
                       timeouts, toasts, deletions, sbVars, engineVars>>

\* undoDelete(id) of the undo store, as the button of UndoToast calls it.
UndoDelete ==
    \E pending \in pendingDeletions :
        /\ timeouts' = ClearTimeouts({pending})
        /\ pendingDeletions' = pendingDeletions \ {pending}
        /\ undoPressed' = undoPressed \cup {pending.id}
        /\ serverCall' = NoCall
        /\ UNCHANGED <<undoNow, dbMemos, hiddenMemos, selectedMemoIds, toasts,
                       deletions, sbVars, engineVars>>

\* removePendingDeletion(id) of the undo store, called for a pending id (for
\* any other id it does nothing).
RemovePendingDeletion ==
    \E pending \in pendingDeletions :
        /\ timeouts' = ClearTimeouts({pending})
        /\ pendingDeletions' = pendingDeletions \ {pending}
        /\ serverCall' = NoCall
        /\ UNCHANGED <<undoNow, dbMemos, hiddenMemos, selectedMemoIds, toasts,
                       undoPressed, deletions, sbVars, engineVars>>

\* cleanup() of the undo store.
Cleanup ==
    /\ timeouts' = ClearTimeouts(pendingDeletions)
    /\ pendingDeletions' = {}
    /\ serverCall' = NoCall
    /\ UNCHANGED <<undoNow, dbMemos, hiddenMemos, selectedMemoIds, toasts,
                   undoPressed, deletions, sbVars, engineVars>>

\* The callback of setTimeout in addPendingDeletion: onExpire(), then
\* removePendingDeletion(memo.id). onExpire is the callback of handleDelete
\* (permanentlyDeleteMemo, and handleUndo when it throws) or the one of
\* deleteSelected (restoreDeletedMemos).
PendingDeletionExpires ==
    \E t \in timeouts, ok \in BOOLEAN :
        /\ t.at <= undoNow
        /\ IF t.onExpire.fn = "permanentlyDeleteMemo"
           THEN /\ dbMemos' = IF ok THEN dbMemos \ t.onExpire.memos ELSE dbMemos
                /\ hiddenMemos' = IF ok THEN hiddenMemos
                                  ELSE hiddenMemos \ t.onExpire.memos
                /\ serverCall' = [fn |-> "permanentlyDeleteMemo", key |-> t.key,
                                  ok |-> ok]
           ELSE IF t.onExpire.memos = {}
           THEN /\ ok
                /\ serverCall' = NoCall
                /\ UNCHANGED <<dbMemos, hiddenMemos>>
           ELSE /\ dbMemos' = IF ok THEN dbMemos \cup t.onExpire.memos ELSE dbMemos
                /\ serverCall' = [fn |-> "restoreDeletedMemos", key |-> t.key,
                                  ok |-> ok]
                /\ UNCHANGED hiddenMemos
        /\ timeouts' = {u \in ClearTimeouts({p \in pendingDeletions : p.id = t.key}) :
                           u # t}
        /\ pendingDeletions' = {p \in pendingDeletions : p.id # t.key}
        /\ UNCHANGED <<undoNow, selectedMemoIds, toasts, undoPressed, deletions, sbVars,
                       engineVars>>

\* The callback of setTimeout in addToast: removeToast(id).
ToastExpires ==
    \E toast \in toasts :
        /\ toast.removeAt <= undoNow
        /\ toasts' = toasts \ {toast}
        /\ serverCall' = NoCall
        /\ UNCHANGED <<undoNow, dbMemos, hiddenMemos, selectedMemoIds,
                       pendingDeletions, timeouts, undoPressed, deletions, sbVars, engineVars>>

\* The close button of a toast: removeToast(toast.id).
RemoveToast ==
    \E toast \in toasts :
        /\ toasts' = toasts \ {toast}
        /\ serverCall' = NoCall
        /\ UNCHANGED <<undoNow, dbMemos, hiddenMemos, selectedMemoIds,
                       pendingDeletions, timeouts, undoPressed, deletions, sbVars, engineVars>>

\* toggleMemo(id) of the selection store, for a memo on display.
ToggleMemo ==
    \E id \in dbMemos \ hiddenMemos :
        /\ selectedMemoIds' = IF id \in selectedMemoIds
                              THEN selectedMemoIds \ {id}
                              ELSE selectedMemoIds \cup {id}
        /\ serverCall' = NoCall
        /\ UNCHANGED <<undoNow, dbMemos, hiddenMemos, pendingDeletions, timeouts,
                       toasts, undoPressed, deletions, sbVars, engineVars>>

\* useBulkOperations.deleteSelected: bulkDeleteMemos deletes the rows and
\* returns them; on success the restoring callback is handed to
\* addPendingDeletion as onExpire and the selection is cleared. The toast it
\* shows either way has no button.
DeleteSelected ==
    \E ok \in BOOLEAN :
        /\ selectedMemoIds # {}
        /\ deletions < MaxDeletions
        /\ deletions' = deletions + 1
        /\ serverCall' = [fn |-> "bulkDeleteMemos", key |-> BulkKey(undoNow),
                          ok |-> ok]
        /\ IF ok
           THEN /\ dbMemos' = dbMemos \ selectedMemoIds
                /\ addPendingDeletion(BulkKey(undoNow),
                                      [fn |-> "restoreDeletedMemos",
                                       memos |-> selectedMemoIds \cap dbMemos])
                /\ undoPressed' = undoPressed \ {BulkKey(undoNow)}
                /\ selectedMemoIds' = {}
           ELSE UNCHANGED <<dbMemos, pendingDeletions, timeouts, undoPressed,
                            selectedMemoIds>>
        /\ UNCHANGED <<undoNow, hiddenMemos, toasts, sbVars, engineVars>>

\* Time passes, once every timeout that is due has run.
UndoClockTick ==
    /\ undoNow < MaxUndoTicks * UndoClockStep
    /\ \A t \in timeouts : t.at > undoNow
    /\ \A toast \in toasts : toast.removeAt > undoNow
    /\ undoNow' = undoNow + UndoClockStep
    /\ serverCall' = NoCall
    /\ UNCHANGED <<dbMemos, hiddenMemos, selectedMemoIds, pendingDeletions,
                   timeouts, toasts, undoPressed, deletions, sbVars, engineVars>>

NextUndo ==
    \/ HandleDelete
    \/ HandleUndo
    \/ UndoDelete
    \/ RemovePendingDeletion
    \/ Cleanup
    \/ PendingDeletionExpires
    \/ ToastExpires
    \/ RemoveToast
    \/ ToggleMemo
    \/ DeleteSelected
    \/ UndoClockTick

SpecUndo == InitUndo /\ [][NextUndo]_vars

(***************************************************************************)
(* The suggestion debounce of EnhancedSearchBar and SearchBar              *)
(***************************************************************************)

MaxDebounceTicks == 7

DebounceDelay == 300

\* The clock moves by a third of the delay.
DebounceClockStep == DebounceDelay \div 3

\* Values of the input: "", "a", "ab", "ba" and two spaces.
InputValues == {<< >>, <<97>>, <<97, 98>>, <<98, 97>>, <<32, 32>>}

InitDebounce ==
    /\ sbBar \in {"EnhancedSearchBar", "SearchBar"}
    /\ sbNow = 0
    /\ sbQuery = << >>
    /\ suggestionTimeoutRef = {}
    /\ sbTimeouts = {}
    /\ suggestions = {}
    /\ showSuggestions = FALSE
    /\ sbInFlight = {}
    /\ sbFetch = NoFetch
    /\ sbLog = << >>
    /\ UndoIdle
    /\ EngineIdle

\* The test of handleInputChange: newQuery.trim() in EnhancedSearchBar,
\* value.length > 1 in SearchBar.
WantsSuggestions(value) ==
    IF sbBar = "EnhancedSearchBar" THEN Trim(value) # << >> ELSE Len(value) > 1

debouncedFetchSuggestions(searchQuery) ==
    LET timeoutId == [at |-> sbNow + DebounceDelay, searchQuery |-> searchQuery]
    IN  /\ sbTimeouts' = {t \in sbTimeouts : t.timeoutId \notin suggestionTimeoutRef}
                             \cup {[timeoutId |-> timeoutId,
                                    at |-> sbNow + DebounceDelay,
                                    searchQuery |-> searchQuery]}
        /\ suggestionTimeoutRef' = {timeoutId}

HandleInputChange ==
    \E value \in InputValues \ {sbQuery} :
        /\ sbQuery' = value
        /\ IF WantsSuggestions(value)
           THEN /\ debouncedFetchSuggestions(value)
                /\ UNCHANGED <<suggestions, showSuggestions>>
           ELSE /\ suggestions' = {}
                /\ showSuggestions' = FALSE
                /\ UNCHANGED <<suggestionTimeoutRef, sbTimeouts>>
        /\ sbFetch' = NoFetch
        /\ UNCHANGED <<sbBar, sbNow, sbInFlight, sbLog, undoVars, engineVars>>

\* The clear button, rendered while the input is not empty.
HandleClear ==
    /\ sbQuery # << >>
    /\ sbQuery' = << >>
    /\ suggestions' = {}
    /\ showSuggestions' = FALSE
    /\ sbFetch' = NoFetch
    /\ UNCHANGED <<sbBar, sbNow, suggestionTimeoutRef, sbTimeouts, sbInFlight,
                   sbLog, undoVars, engineVars>>

\* The callback of setTimeout in debouncedFetchSuggestions:
\* fetchSuggestions(searchQuery) up to its await.
SuggestionTimeoutFires ==
    \E t \in sbTimeouts :
        /\ t.at <= sbNow
        /\ sbTimeouts' = sbTimeouts \ {t}
        /\ IF Trim(t.searchQuery) = << >>
           THEN /\ suggestions' = {}
                /\ showSuggestions' = FALSE
                /\ sbFetch' = NoFetch
                /\ UNCHANGED <<sbInFlight, sbLog>>
           ELSE /\ sbFetch' = [called |-> TRUE, searchQuery |-> t.searchQuery]
                /\ sbInFlight' = sbInFlight \cup {t.searchQuery}
                /\ sbLog' = Append(sbLog, [searchQuery |-> t.searchQuery,
                                           answer      |-> "awaited"])
                /\ UNCHANGED <<suggestions, showSuggestions>>
        /\ UNCHANGED <<sbBar, sbNow, sbQuery, suggestionTimeoutRef, undoVars,
                       engineVars>>

\* fetchSuggestions after its await: getSearchSuggestions has answered.
SuggestionsArrive ==
    \E searchQuery \in sbInFlight, success \in BOOLEAN :
        /\ sbInFlight' = sbInFlight \ {searchQuery}
        /\ suggestions' = IF success THEN {searchQuery} ELSE suggestions
        /\ showSuggestions' = IF success THEN TRUE ELSE showSuggestions
        /\ sbLog' = [j \in 1..Len(sbLog) |->
                        IF sbLog[j].searchQuery = searchQuery /\ sbLog[j].answer = "awaited"
                        THEN [sbLog[j] EXCEPT !.answer = IF success THEN "data" ELSE "failed"]
                        ELSE sbLog[j]]
        /\ sbFetch' = NoFetch
        /\ UNCHANGED <<sbBar, sbNow, sbQuery, suggestionTimeoutRef, sbTimeouts,
                       undoVars, engineVars>>

\* Time passes, once every timeout that is due has run.
DebounceClockTick ==
    /\ sbNow < MaxDebounceTicks * DebounceClockStep
    /\ \A t \in sbTimeouts : t.at > sbNow
    /\ sbNow' = sbNow + DebounceClockStep
    /\ sbFetch' = NoFetch
    /\ UNCHANGED <<sbBar, sbQuery, suggestionTimeoutRef, sbTimeouts, suggestions,
                   showSuggestions, sbInFlight, sbLog, undoVars, engineVars>>

NextDebounce ==
    \/ HandleInputChange
    \/ HandleClear
    \/ SuggestionTimeoutFires
    \/ SuggestionsArrive
    \/ DebounceClockTick

SpecDebounce == InitDebounce /\ [][NextDebounce]_vars

(***************************************************************************)
(* Calls of TextNormalizer, one on the result of the other                 *)
(***************************************************************************)

MaxNormLen == 3

MaxCalls == 2

\* Characters of the texts: A a Ａ ！ あ ゖ U+3097 ア ヶ ヷ 技 ! space and
\* the ideographic space. ゖ and ヶ are the last characters of the two
\* converted ranges, U+3097 and ヷ the first ones after them.
NormAlphabet ==
    {65, 97, 65313, 65281, 12354, 12438, 12439, 12450, 12534, 12535, 25216, 33, 32, 12288}

\* The argument of the next call: the value the last call returned, or the
\* text given at first.
LastValue == IF fnTrace = << >> THEN fnInput ELSE fnTrace[Len(fnTrace)].value

InitNormalize ==
    /\ fnInput \in StringsUpTo(NormAlphabet, MaxNormLen)
    /\ fnTrace = << >>
    /\ SearchIdle
    /\ ParseIdle
    /\ HighlightIdle
    /\ UiIdle

Returns(fn, value) ==
    /\ Len(fnTrace) < MaxCalls
    /\ fnTrace' = Append(fnTrace, [fn |-> fn, value |-> value])
    /\ UNCHANGED <<fnInput, searchVars, parseVars, hlVars, uiVars>>

CallNormalizeForSearch == Returns("normalizeForSearch", normalizeForSearch(LastValue))

CallHiraganaToKatakana == Returns("hiraganaToKatakana", hiraganaToKatakana(LastValue))

CallKatakanaToHiragana == Returns("katakanaToHiragana", katakanaToHiragana(LastValue))

NextNormalize ==
    \/ CallNormalizeForSearch
    \/ CallHiraganaToKatakana
    \/ CallKatakanaToHiragana

SpecNormalize == InitNormalize /\ [][NextNormalize]_vars

(***************************************************************************)
(* One call of FuzzySearch.levenshteinDistance or calculateSimilarity      *)
(***************************************************************************)

MaxFuzzyLen == 3

FuzzyAlphabet == {97, 98, 99}

\* fnInput is the pair (str1, str2).
InitFuzzy ==
    /\ fnInput \in StringsUpTo(FuzzyAlphabet, MaxFuzzyLen) \X StringsUpTo(FuzzyAlphabet, MaxFuzzyLen)
    /\ fnTrace = << >>
    /\ SearchIdle
    /\ ParseIdle
    /\ HighlightIdle
    /\ UiIdle

ReturnsOnce(fn, value) ==
    /\ fnTrace = << >>
    /\ fnTrace' = <<[fn |-> fn, value |-> value]>>
    /\ UNCHANGED <<fnInput, searchVars, parseVars, hlVars, uiVars>>

CallLevenshteinDistance ==
    ReturnsOnce("levenshteinDistance", levenshteinDistance(fnInput[1], fnInput[2]))

CallCalculateSimilarity ==
    ReturnsOnce("calculateSimilarity", calculateSimilarity(fnInput[1], fnInput[2]))

NextFuzzy ==
    \/ CallLevenshteinDistance
    \/ CallCalculateSimilarity

SpecFuzzy == InitFuzzy /\ [][NextFuzzy]_vars

(***************************************************************************)
(* One call of FuzzySearch.partialMatch                                    *)
(***************************************************************************)

\* Characters of the query and the target: A a space ア.
PartialAlphabet == {65, 97, 32, 12450}

MaxPartialQueryLen == 2

MaxPartialTargetLen == 3

\* normalizeText and caseSensitive left at their defaults, threshold and
\* maxDistance at their defaults or as strict as they can be.
PartialOptions ==
    {FuzzyDefaults, [FuzzyDefaults EXCEPT !.threshold = ROne, !.maxDistance = 0]}

InitPartialMatch ==
    /\ fnInput \in [query   : StringsUpTo(PartialAlphabet, MaxPartialQueryLen),
                    target  : StringsUpTo(PartialAlphabet, MaxPartialTargetLen),
                    options : PartialOptions]
    /\ fnTrace = << >>
    /\ SearchIdle
    /\ ParseIdle
    /\ HighlightIdle
    /\ UiIdle

CallPartialMatch ==
    ReturnsOnce("partialMatch",
                partialMatch(fnInput.query, fnInput.target, fnInput.options))

NextPartialMatch == CallPartialMatch

SpecPartialMatch == InitPartialMatch /\ [][NextPartialMatch]_vars

(***************************************************************************)
(* One call of mergeOverlappingMatches                                     *)
(***************************************************************************)

MaxMergeSpans == 3

MaxOffset == 4

\* The spans a match list is made of: not empty, with the scores
\* generateHighlight gives.
MergeSpans ==
    {span \in [start : 0..MaxOffset, end : 1..MaxOffset, score : {Rat(4, 5), ROne}] :
        span.start < span.end}

\* [{start: 0, end: 5, score: 0.8}, {start: 3, end: 8, score: 1.0}]
MergeExample ==
    <<[start |-> 0, end |-> 5, score |-> Rat(4, 5)], [start |-> 3, end |-> 8, score |-> ROne]>>

InitMerge ==
    /\ fnInput \in StringsUpTo(MergeSpans, MaxMergeSpans) \cup {MergeExample}
    /\ fnTrace = << >>
    /\ SearchIdle
    /\ ParseIdle
    /\ HighlightIdle
    /\ UiIdle

CallMergeOverlappingMatches ==
    ReturnsOnce("mergeOverlappingMatches", mergeOverlappingMatches(fnInput))

NextMerge == CallMergeOverlappingMatches

SpecMerge == InitMerge /\ [][NextMerge]_vars

(***************************************************************************)
(* One call of SuggestionProvider.getSuggestions                           *)
(***************************************************************************)

MaxHistoryRows == 2

MaxSuggestionMemos == 2

\* The five queries getSuggestions awaits, by what they feed.
SuggestionSources == {"history", "tags", "content", "category", "keywords"}

\* The rows of search_history with these queries, the latest first.
HistoryRows(queries) ==
    [k \in 1..Len(queries) |-> [query |-> queries[k], executed_at |-> Len(queries) - k + 1]]

\* The rows of memos:
\*   1  content "a", tags a and b, category a, keyword a
\*   2  content "b c", tag a
\*   3  content "a b。c", category b, keyword b
SuggestionMemoPool ==
    { [id |-> 1, content |-> <<97>>, tags |-> << <<97>>, <<98>> >>,
       category |-> <<97>>, keywords |-> << <<97>> >>],
      [id |-> 2, content |-> <<98, 32, 99>>, tags |-> << <<97>> >>,
       category |-> << >>, keywords |-> << >>],
      [id |-> 3, content |-> <<97, 32, 98, 12290, 99>>, tags |-> << >>,
       category |-> <<98>>, keywords |-> << <<98>> >>] }

\* The queries:  ""  "a"  "ab"
SuggestionQueries == { << >>, <<97>>, <<97, 98>> }

SuggestionOptionSets ==
    { [given |-> {}],
      [given |-> {"maxHistorySuggestions"}, maxHistorySuggestions |-> 1],
      [given |-> {"sortBy"}, sortBy |-> "frequency"],
      [given |-> {"fuzzyThreshold"}, fuzzyThreshold |-> Rat(1, 2)] }

\* What the five queries come to when the tables hold these rows: all give
\* their rows, or one of them fails.
Fetches(history, rows) ==
    { [s \in SuggestionSources |->
          IF s = failed /\ outcome # "data"
          THEN [outcome |-> outcome, data |-> << >>]
          ELSE [outcome |-> "data",
                data    |-> IF s = "history" THEN history ELSE rows]] :
        failed \in SuggestionSources, outcome \in FetchOutcomes }

InitSuggestions ==
    /\ \E queries \in StringsUpTo({<<97>>, <<98>>}, MaxHistoryRows),
          rows \in {ms \in StringsUpTo(SuggestionMemoPool, MaxSuggestionMemos) :
                       \A i, j \in 1..Len(ms) : i # j => ms[i] # ms[j]} :
          fnInput \in [query   : SuggestionQueries,
                       options : SuggestionOptionSets,
                       fetch   : Fetches(HistoryRows(queries), rows)]
    /\ fnTrace = << >>
    /\ SearchIdle
    /\ ParseIdle
    /\ HighlightIdle
    /\ UiIdle

CallGetSuggestions ==
    ReturnsOnce("getSuggestions",
                getSuggestions(fnInput.query, fnInput.fetch, fnInput.options))

NextSuggestions == CallGetSuggestions

SpecSuggestions == InitSuggestions /\ [][NextSuggestions]_vars

(***************************************************************************)
(* One call of TextNormalizer.normalizeSymbols or of normalize             *)
(***************************************************************************)

MaxSymbolLen == 3

\* ！ ？ 「 】 a ! and the space
SymbolAlphabet == {65281, 65311, 12300, 12305, 97, 33, 32}

InitSymbols ==
    /\ fnInput \in StringsUpTo(SymbolAlphabet, MaxSymbolLen)
    /\ fnTrace = << >>
    /\ SearchIdle
    /\ ParseIdle
    /\ HighlightIdle
    /\ UiIdle

\* TextNormalizer.normalizeSymbols(text)
CallNormalizeSymbols ==
    ReturnsOnce("normalizeSymbols", normalizeSymbols(fnInput, NoSymbolOptions))

\* TextNormalizer.normalize(text, {symbols: {normalizeSymbols: true}})
CallNormalizeWithSymbols ==
    ReturnsOnce("normalize",
                normalizeSymbolsOption(fnInput, [NoSymbolOptions EXCEPT
                                                    !.normalizeSymbols = TRUE]))

NextSymbols ==
    \/ CallNormalizeSymbols
    \/ CallNormalizeWithSymbols

SpecSymbols == InitSymbols /\ [][NextSymbols]_vars

(***************************************************************************)
(* One call of partialMatch, multiQueryMatch or multiQueryOrMatch          *)
(***************************************************************************)

MaxTerms == 2

\* The terms and the targets:  ""  "a"  "b"  "a b"
MultiQueryStrings == { << >>, <<97>>, <<98>>, <<97, 32, 98>> }

InitMultiQuery ==
    /\ fnInput \in [query   : MultiQueryStrings,
                    queries : StringsUpTo(MultiQueryStrings, MaxTerms),
                    target  : MultiQueryStrings,
                    options : PartialOptions]
    /\ fnTrace = << >>
    /\ SearchIdle
    /\ ParseIdle
    /\ HighlightIdle
    /\ UiIdle

CallMultiQueryMatch ==
    ReturnsOnce("multiQueryMatch",
                multiQueryMatch(fnInput.queries, fnInput.target, fnInput.options))

CallMultiQueryOrMatch ==
    ReturnsOnce("multiQueryOrMatch",
                multiQueryOrMatch(fnInput.queries, fnInput.target, fnInput.options))

NextMultiQuery ==
    \/ CallPartialMatch
    \/ CallMultiQueryMatch
    \/ CallMultiQueryOrMatch

SpecMultiQuery == InitMultiQuery /\ [][NextMultiQuery]_vars

(***************************************************************************)
(* Properties                                                              *)
(***************************************************************************)

\* C4: generateHighlight(query, text) terminates, with a finite list of
\* spans, for every query and every text, a query that is empty after
\* normalization included: every call reaches its return.
C4_HighlightTerminates == (hlPc = "exact") ~> (hlPc = "done")

\* What a span of the returned list stands for: the whole query (score 1)
\* or one of its words (score 0.8).
SpanMatchesQuery(span) ==
    LET original == ToLowerCase(normalizeForPartialMatch(Substring(hlText, span.start, span.end)))
    IN  IF span.score = ROne
        THEN original = hlNormalizedQuery
        ELSE \E w \in 1..Len(hlQueryWords) : original = hlQueryWords[w]

\* C5: every span returned by generateHighlight(query, text) satisfies
\* 0 <= start < end <= length(text) and 0 <= score <= 1, and start and end
\* are offsets into the original text: the characters text[start..end) are
\* the ones that matched, also when normalization changes the length of the
\* text.
C5_SpansAreOriginalOffsets ==
    hlPc = "done" =>
        \A k \in 1..Len(highlighted) :
            /\ 0 <= highlighted[k].start
            /\ highlighted[k].start < highlighted[k].end
            /\ highlighted[k].end <= Len(hlText)
            /\ RLeq(RZero, highlighted[k].score)
            /\ RLeq(highlighted[k].score, ROne)
            /\ SpanMatchesQuery(highlighted[k])

WordLevel(span) == span.score = Rat(4, 5)

\* C18: the spans generateHighlight returns are in ascending order of
\* start, and a word-level span (score 0.8) overlaps no other span of the
\* list; generateHighlight("machine", "I study machine learning") returns
\* one span, of score 1.0, over "machine".
C18_SpansSortedWordSpansDisjoint ==
    hlPc = "done" =>
        /\ \A j \in 1..(Len(highlighted) - 1) :
               highlighted[j].start <= highlighted[j + 1].start
        /\ \A j, k \in 1..Len(highlighted) :
               (j # k /\ WordLevel(highlighted[j])) =>
                   ~(/\ highlighted[j].start < highlighted[k].end
                     /\ highlighted[j].end > highlighted[k].start)
        /\ <<hlQuery, hlText>> = MachineExample =>
               /\ Len(highlighted) = 1
               /\ highlighted[1].score = ROne
               /\ Substring(hlText, highlighted[1].start, highlighted[1].end) = hlQuery

\* A call returned a span of the whole query between two word-level spans,
\* the first of which was pushed last.
C18_WordSpansAroundExactSpan ==
    /\ hlPc = "done"
    /\ <<hlQuery, hlText>> = WordsExample
    /\ Len(highlighted) = 3
    /\ WordLevel(highlighted[1])
    /\ highlighted[2].score = ROne
    /\ WordLevel(highlighted[3])

(***************************************************************************)
(* The search entry points: C1, C2, C3                                     *)
(***************************************************************************)

\* A call of enhancedTextSearch with a non-blank query and no option but
\* the query, that returned.
TextSearchReturned ==
    /\ pc = "returned"
    /\ call.op = "enhancedTextSearch"
    /\ call.options.given = {}
    /\ Trim(call.query) # << >>

\* The content of the record contains the query, both normalized for search.
ContainsQuery(memo) ==
    Includes(normalizeForSearch(memo.content), normalizeForSearch(call.query))

Returned(memo) == \E i \in 1..Len(results) : results[i].memo = memo

ReturnedWithScore(memo) ==
    \E i \in 1..Len(results) : results[i].memo = memo /\ RLess(RZero, results[i].rankScore)

\* The list returned holds maxResults records, none ranked below 1.
ResultsFull ==
    /\ Len(results) = DefaultMaxResults
    /\ \A i \in 1..Len(results) : RLeq(ROne, results[i].rankScore)

C2_BlankQueryReturnsEmpty ==
    (pc # "idle" /\ Trim(call.query) = << >>) => (pc = "returned" /\ results = << >>)

\* complexSearch answered a query of one ideographic space on some records.
C2_BlankComplexQueryAnswered ==
    /\ pc = "returned"
    /\ call.op = "complexSearch"
    /\ call.query = <<12288>>
    /\ memos # << >>

\* What the clauses and the free terms of the parsed query of the call say
\* of one record.
ClauseResults(memo) ==
    Let(parseComplexQuery(call.query).fieldQueries, LAMBDA fqs :
        [j \in 1..Len(fqs) |->
            evaluateFieldQuery(memo, fqs[j].field, fqs[j].value, call.options)])

TermResults(memo) ==
    Let(parseComplexQuery(call.query).terms, LAMBDA terms :
        [j \in 1..Len(terms) |-> searchMemo(memo, terms[j], TermOptions(call.options))])

\* (a) every field clause matches; (b) if there are free terms, one matches.
Selected(memo) ==
    /\ \A j \in 1..Len(ClauseResults(memo)) : ClauseResults(memo)[j].matched
    /\ TermResults(memo) # << >> =>
           \E j \in 1..Len(TermResults(memo)) : TermResults(memo)[j].matched

\* The mean of the scores of the clauses and terms that matched.
MeanScore(memo) ==
    Let(SelectSeq(ClauseResults(memo) \o TermResults(memo), LAMBDA r : r.matched),
        LAMBDA hits :
            IF hits = << >> THEN RZero
            ELSE RDivInt(RSum([j \in 1..Len(hits) |-> hits[j].score]), Len(hits)))

\* A call of complexSearch that returned, with a query that has an operator
\* or a field clause, and a field clause or a free term to match.
ComplexReturned ==
    /\ pc = "returned"
    /\ call.op = "complexSearch"
    /\ \/ parseComplexQuery(call.query).operators # << >>
       \/ parseComplexQuery(call.query).fieldQueries # << >>
    /\ \/ parseComplexQuery(call.query).fieldQueries # << >>
       \/ parseComplexQuery(call.query).terms # << >>

\* C3: for a query with an operator or a field clause, complexSearch returns
\* a record if and only if every field clause matches it and, when the query
\* has free terms, at least one free term matches it; the rankScore returned
\* is the mean of the scores of the clauses and terms that matched.
C3_ComplexSelection ==
    ComplexReturned =>
        /\ \A k \in 1..Len(memos) : Returned(memos[k]) <=> Selected(memos[k])
        /\ \A i \in 1..Len(results) : results[i].rankScore = MeanScore(results[i].memo)

(***************************************************************************)
(* complexSearch and the type of the operators: C27                        *)
(***************************************************************************)

\* AND, OR, NOT
OperatorKeywords == { <<65, 78, 68>>, <<79, 82>>, <<78, 79, 84>> }

\* The keyword stands at offset i of the query as a word of its own, in
\* either case.
KeywordAt(query, keyword, i) ==
    /\ OccursAt(ToUpperCase(query), keyword, i)
    /\ (i = 0 \/ IsSpace(query[i]))
    /\ (i + Len(keyword) = Len(query) \/ IsSpace(query[i + Len(keyword) + 1]))

\* The query with another keyword at that place.
WithKeyword(query, keyword, i, other) ==
    Substring(query, 0, i) \o other \o Substring(query, i + Len(keyword), Len(query))

\* A call of complexSearch that returned, for a query with an operator.
OperatorQueryReturned ==
    /\ pc = "returned"
    /\ call.op = "complexSearch"
    /\ parseComplexQuery(call.query).operators # << >>

C30_AtMostMaxResults ==
    (pc = "returned" /\ call.op = "complexSearch") =>
        Len(results) <= Opt(call.options, "maxResults", DefaultMaxResults)

(***************************************************************************)
(* searchMemo, the score of a record: C20                                  *)
(***************************************************************************)

\* A call of enhancedTextSearch that returned.
TextSearchDone == pc = "returned" /\ call.op = "enhancedTextSearch"

\* The weights and the values of the five fields of a record, as the claim
\* gives them.
Weighted(memo) ==
    [content  |-> [value |-> memo.content,          weight |-> Rat(10, 10)],
     tags     |-> [value |-> JoinSp(memo.tags),     weight |-> Rat(8, 10)],
     category |-> [value |-> memo.category,         weight |-> Rat(6, 10)],
     summary  |-> [value |-> memo.summary,          weight |-> Rat(7, 10)],
     keywords |-> [value |-> JoinSp(memo.keywords), weight |-> Rat(9, 10)]]

\* What searchField answers for a field of a record under the call made.
FieldAnswer(memo, name) ==
    searchField(IF Opt(call.options, "useNormalization", TRUE)
                THEN normalizeForSearch(call.query) ELSE call.query,
                Weighted(memo)[name].value,
                [useNormalization  |-> Opt(call.options, "useNormalization", TRUE),
                 useFuzzySearch    |-> Opt(call.options, "useFuzzySearch", FALSE),
                 fuzzyThreshold    |-> Opt(call.options, "fuzzyThreshold", Rat(7, 10)),
                 searchMode        |-> Opt(call.options, "searchMode", "hybrid"),
                 includeHighlights |-> FALSE])

\* The fields of a record that count: not empty, and matched.
CountedFields(memo) ==
    {name \in DOMAIN Weighted(memo) :
        Weighted(memo)[name].value # << >> /\ FieldAnswer(memo, name).matched}

FieldScore(memo, name) == RMul(FieldAnswer(memo, name).score, Weighted(memo)[name].weight)

RECURSIVE SumOver(_, _)
SumOver(memo, names) ==
    IF names = {} THEN RZero
    ELSE LET name == CHOOSE n \in names : TRUE
         IN  RAdd(FieldScore(memo, name), SumOver(memo, names \ {name}))

MaxOver(memo, names) ==
    FieldScore(memo, CHOOSE n \in names :
                         \A other \in names : RLeq(FieldScore(memo, other), FieldScore(memo, n)))

\* C20: the rankScore of a record returned by enhancedTextSearch is
\* (S + M) / 2 in the mode 'hybrid' and S in every other mode, S being the
\* sum and M the maximum of score x weight over its matched fields; a
\* field that is null or empty is not among them.
C20_RankScore ==
    TextSearchDone =>
        \A i \in 1..Len(results) :
            LET memo == results[i].memo
                S == SumOver(memo, CountedFields(memo))
                M == MaxOver(memo, CountedFields(memo))
            IN  /\ CountedFields(memo) # {}
                /\ {results[i].matchedFields[j] : j \in 1..Len(results[i].matchedFields)}
                       = CountedFields(memo)
                /\ results[i].rankScore =
                       IF Opt(call.options, "searchMode", "hybrid") = "hybrid"
                       THEN RDivInt(RAdd(S, M), 2)
                       ELSE S

\* A search in the mode 'fuzzy' returned a record matched in two fields,
\* with the sum of the two weighted scores, which is above 1.
C20_SumInFuzzyMode ==
    /\ TextSearchDone
    /\ call.options.given # {}
    /\ Opt(call.options, "searchMode", "hybrid") = "fuzzy"
    /\ \E i \in 1..Len(results) :
           /\ Len(results[i].matchedFields) >= 2
           /\ RLess(ROne, results[i].rankScore)

(***************************************************************************)
(* enhancedTextSearch, the list returned: C21                              *)
(***************************************************************************)

\* The rankScore of a record with a matched field, from its fields.
ExpectedRank(memo) ==
    IF Opt(call.options, "searchMode", "hybrid") = "hybrid"
    THEN RDivInt(RAdd(SumOver(memo, CountedFields(memo)),
                      MaxOver(memo, CountedFields(memo))), 2)
    ELSE SumOver(memo, CountedFields(memo))

\* The records of the caller's list with a matched field that the call did
\* not return.  A blank query is matched against no record.
LeftOut ==
    IF Trim(call.query) = << >> THEN {}
    ELSE {memos[k] : k \in {j \in 1..Len(memos) :
                               CountedFields(memos[j]) # {} /\ ~Returned(memos[j])}}

\* C21: the list enhancedTextSearch returns holds only records with a
\* matched field, in the order of non-increasing rankScore, at most
\* maxResults of them (20 by default), and no record with a matched field
\* that was left out ranks strictly above a returned one.
C21_TopOfRanking ==
    TextSearchDone =>
        /\ \A i \in 1..Len(results) :
               /\ results[i].matchedFields # << >>
               /\ CountedFields(results[i].memo) # {}
               /\ \E k \in 1..Len(memos) : memos[k] = results[i].memo
        /\ \A i \in 1..(Len(results) - 1) :
               RLeq(results[i + 1].rankScore, results[i].rankScore)
        /\ Len(results) <= Opt(call.options, "maxResults", 20)
        /\ \A memo \in LeftOut : \A i \in 1..Len(results) :
               RLeq(ExpectedRank(memo), results[i].rankScore)
        /\ LeftOut # {} => Len(results) = Opt(call.options, "maxResults", 20)

\* A call returned the limit of one record and left out a record with a
\* matched field and a lower rank that stands earlier in the caller's list.
C21_LowerRankedLeftOut ==
    /\ TextSearchDone
    /\ Opt(call.options, "maxResults", 20) = 1
    /\ Len(results) = 1
    /\ Len(memos) = 2
    /\ memos[1] \in LeftOut
    /\ RLess(ExpectedRank(memos[1]), results[1].rankScore)

(***************************************************************************)
(* enhancedTagSearch, the modes: C22                                       *)
(***************************************************************************)

\* A call of enhancedTagSearch with a query that is not blank returned.
TagSearchDone ==
    /\ pc = "returned"
    /\ call.op = "enhancedTagSearch"
    /\ Trim(call.query) # << >>

TagMode == Opt(call.options, "mode", "any")

\* The tag matches the query of the call by equality, substring or fuzzy
\* match, as far as the options of the call allow.
TagMatches(tag) ==
    LET q == normalizeForSearch(call.query)
        t == normalizeForSearch(tag)
    IN  \/ t = q
        \/ Opt(call.options, "partial", TRUE) /\ Includes(t, q)
        \/ /\ Opt(call.options, "fuzzy", TRUE)
           /\ match(q, t, [FuzzyDefaults EXCEPT
                             !.threshold = Opt(call.options, "threshold", Rat(7, 10)),
                             !.normalizeText = FALSE]).matched

SomeTagMatches(memo) == \E j \in 1..Len(memo.tags) : TagMatches(memo.tags[j])

EveryTagMatches(memo) == \A j \in 1..Len(memo.tags) : TagMatches(memo.tags[j])

\* The mode 'all' returns the list the mode 'any' returns, and both return
\* the records with a matching tag.
AllIsAny ==
    /\ TagMode = "all" =>
           results = enhancedTagSearch(memos, call.query,
                                       [call.options EXCEPT !.mode = "any"]).results
    /\ TagMode \in {"any", "all"} =>
           \A k \in 1..Len(memos) : Returned(memos[k]) <=> SomeTagMatches(memos[k])

\* C22 as claimed: 'all' returns the list 'any' returns, the records with
\* at least one matching tag, and 'exact' returns a record if and only if
\* every one of its tags matches.
C22_ModeSelector ==
    TagSearchDone =>
        /\ AllIsAny
        /\ TagMode = "exact" =>
               \A k \in 1..Len(memos) : Returned(memos[k]) <=> EveryTagMatches(memos[k])

\* C22: 'all' returns the list 'any' returns, the records with at least one
\* matching tag, and 'exact' returns a record if and only if it has a tag
\* and every one of its tags matches.
C22_ModeSelectorOfTaggedRecords ==
    TagSearchDone =>
        /\ AllIsAny
        /\ TagMode = "exact" =>
               \A k \in 1..Len(memos) :
                   Returned(memos[k]) <=>
                       (memos[k].tags # << >> /\ EveryTagMatches(memos[k]))

\* A search in the mode 'exact' returned a record all of whose tags match
\* and left out a record without tags.
C22_ExactSkipsRecordWithoutTags ==
    /\ TagSearchDone
    /\ TagMode = "exact"
    /\ Len(results) = 1
    /\ \E k \in 1..Len(memos) : memos[k].tags = << >> /\ ~Returned(memos[k])

(***************************************************************************)
(* parseComplexQuery, quoted phrases: C11                                  *)
(***************************************************************************)

\* The phrases between double quotes in the query as written.
PqPhrases ==
    {QuotedMatches(pqQuery, 0)[j].phrase : j \in 1..Len(QuotedMatches(pqQuery, 0))}

\* C11: a double-quoted phrase of the query is returned as one term,
\* character for character as written between the quotes; its words are not
\* returned as terms of their own and are not recorded as operators.
C11_QuotedPhraseIsOneTerm ==
    (pqPc = "returned" /\ pqQuery \in QuotedQueries) =>
        /\ \A phrase \in PqPhrases :
               \E j \in 1..Len(pqResult.terms) : pqResult.terms[j] = phrase
        /\ \A j \in 1..Len(pqResult.terms) :
               pqResult.terms[j] \in PqPhrases \cup {<<102, 111, 111>>, <<98, 97, 114>>}
        /\ pqResult.operators = << >>

(***************************************************************************)
(* TextNormalizer: C12, C13                                                *)
(***************************************************************************)

\* The functions called so far, in order.
FnCalled == [j \in 1..Len(fnTrace) |-> fnTrace[j].fn]

\* C12: normalizeForSearch is idempotent: called on its own result it
\* returns that result.
C12_NormalizeForSearchIdempotent ==
    FnCalled = <<"normalizeForSearch", "normalizeForSearch">> =>
        fnTrace[2].value = fnTrace[1].value

\* normalizeForSearch was called twice on a text the first call changed
\* and did not empty.
C12_NormalizedTwice ==
    /\ FnCalled = <<"normalizeForSearch", "normalizeForSearch">>
    /\ fnTrace[1].value # fnInput
    /\ fnTrace[1].value # << >>
    /\ Len(fnInput) = MaxNormLen

\* The argument of the j-th call.
FnArgument(j) == IF j = 1 THEN fnInput ELSE fnTrace[j - 1].value

HiraganaBlock == 12353..12438

KatakanaBlock == 12449..12534

\* The j-th call returned its argument with only the characters of the
\* block changed.
OnlyBlockChanged(j, block) ==
    /\ Len(fnTrace[j].value) = Len(FnArgument(j))
    /\ \A i \in 1..Len(FnArgument(j)) :
           FnArgument(j)[i] \notin block => fnTrace[j].value[i] = FnArgument(j)[i]

\* C13: katakanaToHiragana(hiraganaToKatakana(s)) = katakanaToHiragana(s),
\* and hiraganaToKatakana changes no character outside U+3041..U+3096,
\* katakanaToHiragana none outside U+30A1..U+30F6.
C13_KanaRoundTrip ==
    /\ FnCalled = <<"hiraganaToKatakana", "katakanaToHiragana">> =>
           fnTrace[2].value = katakanaToHiragana(fnInput)
    /\ \A j \in 1..Len(fnTrace) :
           /\ fnTrace[j].fn = "hiraganaToKatakana" => OnlyBlockChanged(j, HiraganaBlock)
           /\ fnTrace[j].fn = "katakanaToHiragana" => OnlyBlockChanged(j, KatakanaBlock)

\* A text with the last Hiragana of the range, a Katakana and a character
\* of neither block went through hiraganaToKatakana and then
\* katakanaToHiragana.
C13_MixedTextConverted ==
    /\ FnCalled = <<"hiraganaToKatakana", "katakanaToHiragana">>
    /\ \E i \in 1..Len(fnInput) : fnInput[i] = 12438
    /\ \E i \in 1..Len(fnInput) : fnInput[i] \in KatakanaBlock
    /\ \E i \in 1..Len(fnInput) : fnInput[i] \notin HiraganaBlock \cup KatakanaBlock
    /\ fnTrace[1].value # fnInput
    /\ fnTrace[2].value # fnTrace[1].value

(***************************************************************************)
(* levenshteinDistance and calculateSimilarity: C14, C15, C16              *)
(***************************************************************************)

\* The least number of single-character insertions, deletions and
\* substitutions that turn a into b.
RECURSIVE EditDistance(_, _)
EditDistance(a, b) ==
    IF a = << >> THEN Len(b)
    ELSE IF b = << >> THEN Len(a)
    ELSE Min(Min(EditDistance(Tail(a), b) + 1, EditDistance(a, Tail(b)) + 1),
             EditDistance(Tail(a), Tail(b)) + (IF Head(a) = Head(b) THEN 0 ELSE 1))

DistanceReturned == FnCalled = <<"levenshteinDistance">>

SimilarityReturned == FnCalled = <<"calculateSimilarity">>

\* C14: levenshteinDistance(a, b) is 0 exactly when a = b, and it is the
\* edit distance of a and b.
C14_DistanceIsEditDistance ==
    DistanceReturned =>
        /\ fnTrace[1].value = 0 <=> fnInput[1] = fnInput[2]
        /\ fnTrace[1].value = EditDistance(fnInput[1], fnInput[2])

\* The distance of two different strings of the greatest length that
\* share a character was returned, and needs a substitution.
C14_DistanceOfUnequalStrings ==
    /\ DistanceReturned
    /\ Len(fnInput[1]) = MaxFuzzyLen
    /\ Len(fnInput[2]) = MaxFuzzyLen
    /\ fnInput[1][1] = fnInput[2][1]
    /\ fnTrace[1].value = MaxFuzzyLen - 1

\* C15: levenshteinDistance(a, b) = levenshteinDistance(b, a).
C15_DistanceSymmetric ==
    DistanceReturned =>
        fnTrace[1].value = levenshteinDistance(fnInput[2], fnInput[1])

\* The distance from the empty string to a string that is not empty was
\* returned.
C15_DistanceFromEmpty ==
    /\ DistanceReturned
    /\ fnInput[1] = << >>
    /\ Len(fnInput[2]) = MaxFuzzyLen
    /\ fnTrace[1].value = MaxFuzzyLen

MaxLength == Max(Len(fnInput[1]), Len(fnInput[2]))

\* C16: 0 <= levenshteinDistance(a, b) <= max(len(a), len(b));
\* calculateSimilarity(a, b) is a number of [0, 1], it is
\* 1 - distance / max(len(a), len(b)) when that length is not 0 and 1 for
\* two empty strings.
C16_DistanceAndSimilarityBounded ==
    /\ DistanceReturned =>
           fnTrace[1].value \in 0..MaxLength
    /\ SimilarityReturned =>
           /\ fnTrace[1].value[2] > 0
           /\ RLeq(RZero, fnTrace[1].value)
           /\ RLeq(fnTrace[1].value, ROne)
           /\ MaxLength = 0 => fnTrace[1].value = ROne
           /\ MaxLength > 0 =>
                  RAdd(fnTrace[1].value,
                       Rat(levenshteinDistance(fnInput[1], fnInput[2]), MaxLength)) = ROne

\* The similarity of two empty strings was returned.
C16_SimilarityOfEmptyStrings ==
    /\ SimilarityReturned
    /\ fnInput = << << >>, << >> >>
    /\ fnTrace[1].value = ROne

(***************************************************************************)
(* partialMatch: C17                                                       *)
(***************************************************************************)

PartialMatchReturned == FnCalled = <<"partialMatch">>

NormalizedTargetContainsQuery ==
    Includes(normalizeForPartialMatch(fnInput.target),
             normalizeForPartialMatch(fnInput.query))

\* C17: with normalizeText and caseSensitive at their defaults,
\* partialMatch(q, target) returns matched, score 1.0 and distance 0 when
\* normalizeForPartialMatch(target) contains normalizeForPartialMatch(q),
\* whatever threshold and maxDistance are.
C17_ContainedQueryMatchesFully ==
    (PartialMatchReturned /\ NormalizedTargetContainsQuery) =>
        /\ fnTrace[1].value.matched
        /\ fnTrace[1].value.score = ROne
        /\ fnTrace[1].value.distance = 0

\* partialMatch returned for a query that is inside the target only after
\* normalization and is a proper part of one of its words, under the strict
\* options.
C17_ContainedAfterNormalization ==
    /\ PartialMatchReturned
    /\ NormalizedTargetContainsQuery
    /\ normalizeForPartialMatch(fnInput.query) # << >>
    /\ ~Includes(fnInput.target, fnInput.query)
    /\ normalizeForPartialMatch(fnInput.query) \notin
           {SplitWs(normalizeForPartialMatch(fnInput.target))[j] :
               j \in 1..Len(SplitWs(normalizeForPartialMatch(fnInput.target)))}
    /\ fnInput.options.maxDistance = 0

(***************************************************************************)
(* mergeOverlappingMatches: C19                                            *)
(***************************************************************************)

MergeReturned == FnCalled = <<"mergeOverlappingMatches">>

\* The offsets the spans of a list cover.
Covered(spans) == UNION {spans[j].start..(spans[j].end - 1) : j \in 1..Len(spans)}

\* The spans of the input that lie within a span of the output.
MergedInto(span) ==
    {fnInput[j] : j \in {k \in 1..Len(fnInput) :
                            fnInput[k].start >= span.start /\ fnInput[k].end <= span.end}}

\* C19: mergeOverlappingMatches returns spans sorted by start, each
\* starting strictly after the end of the one before, that cover the
\* offsets the input spans cover, each with the greatest score of the
\* input spans merged into it; [{0,5,0.8},{3,8,1.0}] gives [{0,8,1.0}].
C19_MergedSpans ==
    MergeReturned =>
        LET merged == fnTrace[1].value
        IN  /\ \A j \in 1..(Len(merged) - 1) :
                   /\ merged[j].start <= merged[j + 1].start
                   /\ merged[j + 1].start > merged[j].end
            /\ Covered(merged) = Covered(fnInput)
            /\ \A j \in 1..Len(fnInput) :
                   \E k \in 1..Len(merged) : fnInput[j] \in MergedInto(merged[k])
            /\ \A k \in 1..Len(merged) :
                   /\ \E span \in MergedInto(merged[k]) : span.score = merged[k].score
                   /\ \A span \in MergedInto(merged[k]) : RLeq(span.score, merged[k].score)
            /\ fnInput = MergeExample =>
                   merged = <<[start |-> 0, end |-> 8, score |-> ROne]>>

\* Three spans were merged into two, and one span of the result took its
\* start from a span of the lower score and its end and score from a span
\* that starts where that one ends.
C19_TwoOfThreeMerged ==
    /\ MergeReturned
    /\ Len(fnInput) = 3
    /\ Len(fnTrace[1].value) = 2
    /\ \E j, k \in 1..3 : \E m \in 1..2 :
           /\ fnInput[j].end = fnInput[k].start
           /\ RLess(fnInput[j].score, fnInput[k].score)
           /\ fnTrace[1].value[m] =
                  [start |-> fnInput[j].start, end |-> fnInput[k].end, score |-> fnInput[k].score]

(***************************************************************************)
(* SuggestionProvider.getSuggestions: C23, C24                             *)
(***************************************************************************)

SuggestionsReturned == FnCalled = <<"getSuggestions">>

\* The suggestions the sources produced for the call.
SourceCandidates ==
    IF Trim(fnInput.query) = << >> THEN getRecentSuggestions(fnInput.fetch)
    ELSE SourceSuggestions(fnInput.query, fnInput.fetch, fnInput.options)

\* C23: in the list getSuggestions returns, for an empty query as for any
\* other, no two suggestions have the same text, and the suggestion kept for
\* a text has the highest score of the candidates with that text that the
\* sources produced.
C23_NoTwoSuggestionsOfOneText ==
    SuggestionsReturned =>
        Let(fnTrace[1].value, LAMBDA returned :
            /\ \A i, j \in 1..Len(returned) :
                   i # j => returned[i].text # returned[j].text
            /\ \A i \in 1..Len(returned), k \in 1..Len(SourceCandidates) :
                   SourceCandidates[k].text = returned[i].text
                       => RLeq(SourceCandidates[k].score, returned[i].score))

\* C24: when the query of one source fails, by an error result or by an
\* exception, getSuggestions returns what it returns when that source has no
\* rows: the failed source gives nothing and the suggestions of the other
\* sources are returned, for an empty query as for any other.
C24_FailedSourceIsEmptySource ==
    SuggestionsReturned =>
        \A s \in SuggestionSources :
            fnInput.fetch[s].outcome # "data" =>
                fnTrace[1].value =
                    getSuggestions(fnInput.query,
                                   [fnInput.fetch EXCEPT ![s] = [outcome |-> "data",
                                                                 data    |-> << >>]],
                                   fnInput.options)

(***************************************************************************)
(* TextNormalizer.normalizeSymbols: C25                                    *)
(***************************************************************************)

\* C25: normalizeSymbols(text), called with the text alone, returns the text
\* with every mark of the punctuation table replaced by its ASCII mark and
\* every other character as it was, and normalize(text, {symbols:
\* {normalizeSymbols: true}}) applies the same replacement (before its
\* whitespace collapse and trim).
C25_SymbolsReplaced ==
    /\ FnCalled = <<"normalizeSymbols">>
           => fnTrace[1].value = MapStr(NormalizeSymbolChar, fnInput)
    /\ FnCalled = <<"normalize">>
           => fnTrace[1].value = Trim(CollapseSpaces(MapStr(NormalizeSymbolChar, fnInput)))

(***************************************************************************)
(* FuzzySearch on degenerate input: C26                                    *)
(***************************************************************************)

\* A result that is no match and whose score is a number from 0 to 1.
NoMatch(result) ==
    /\ ~result.matched
    /\ result.score[2] # 0
    /\ RLeq(RZero, result.score)
    /\ RLeq(result.score, ROne)

\* C26: partialMatch with an empty query against a target that is not empty,
\* multiQueryMatch with no terms and multiQueryOrMatch with no terms each
\* return, without an exception, a result with matched = false and a numeric
\* score from 0 to 1.
C26_DegenerateInputIsNoMatch ==
    /\ (FnCalled = <<"partialMatch">> /\ fnInput.query = << >> /\ fnInput.target # << >>)
           => NoMatch(fnTrace[1].value)
    /\ (FnCalled = <<"multiQueryMatch">> /\ fnInput.queries = << >>)
           => (~fnTrace[1].value.throws /\ NoMatch(fnTrace[1].value.value))
    /\ (FnCalled = <<"multiQueryOrMatch">> /\ fnInput.queries = << >>)
           => (~fnTrace[1].value.throws /\ NoMatch(fnTrace[1].value.value))

(***************************************************************************)
(* Undo and debounce: C6, C7, C8                                           *)
(***************************************************************************)

\* C6: after handleDelete(memo), permanentlyDeleteMemo(memo.id) is called
\* only if the grace period passes without the undo button of the toast being
\* pressed; once undo is pressed the deletion is cancelled and
\* permanentlyDeleteMemo is never called for the memo.
C6_UndoCancelsDeletion ==
    serverCall.fn = "permanentlyDeleteMemo" => serverCall.key \notin undoPressed

\* C7: after deleteSelected succeeds, restoreDeletedMemos is called only as
\* the effect of an undo; when the grace period elapses with no undo it is
\* never called and the memos stay deleted.
C7_RestoreOnlyByUndo ==
    serverCall.fn = "restoreDeletedMemos" => serverCall.key \in undoPressed

\* C8: every change of the input value, one that empties the input and the
\* clear button included, cancels the suggestion fetch still scheduled; at
\* most one timer is pending, and a timer that fires fetches suggestions for
\* the value in the input, never for an earlier one.
C8_DebouncedFetchIsCurrent ==
    /\ Cardinality(sbTimeouts) <= 1
    /\ \A t \in sbTimeouts : t.searchQuery = sbQuery
    /\ sbFetch.called => sbFetch.searchQuery = sbQuery

\* Typing has stopped and every call of getSearchSuggestions has been
\* answered, all of them with data.
SuggestionsSettled ==
    /\ sbBar = "EnhancedSearchBar"
    /\ sbTimeouts = {}
    /\ sbInFlight = {}
    /\ sbLog # << >>
    /\ \A j \in 1..Len(sbLog) : sbLog[j].answer = "data"

\* C28: in EnhancedSearchBar, once typing has stopped and every response has
\* arrived, the list shown is the response to the last call of
\* getSearchSuggestions made (unless the input was emptied since, which
\* clears the list): the response to an earlier call does not replace the
\* response to a later one; and while the input is empty no response opens
\* the list.
C28_ResponsesInOrder ==
    /\ SuggestionsSettled =>
           (suggestions # {} => suggestions = {sbLog[Len(sbLog)].searchQuery})
    /\ (sbBar = "EnhancedSearchBar" /\ sbQuery = << >>) => ~showSuggestions

(***************************************************************************)
(* The timers of the undo store: C29                                       *)
(***************************************************************************)

\* The ids that are pending.
PendingIds == {p.id : p \in pendingDeletions}

\* Every pending id has one entry, whose timeout is the one live timeout of
\* that id; there is no other live timeout.
OneTimerPerPendingId ==
    /\ \A p, q \in pendingDeletions : p.id = q.id => p = q
    /\ \A p \in pendingDeletions :
           Cardinality({t \in timeouts : t.key = p.id}) = 1
    /\ \A t \in timeouts :
           \E p \in pendingDeletions : p.id = t.key /\ p.timeoutId = t.timeoutId

\* A step in which an onExpire callback calls its server action: the id was
\* pending and the timeout of its entry was live and due (so no undoDelete,
\* removePendingDeletion, cleanup or later addPendingDeletion came between),
\* and after the step the id is not pending and has no timeout left to run
\* the callback again.
ExpiryIsOfLiveEntry ==
    serverCall'.fn \in {"permanentlyDeleteMemo", "restoreDeletedMemos"} =>
        /\ \E p \in pendingDeletions, t \in timeouts :
               /\ p.id = serverCall'.key
               /\ t.timeoutId = p.timeoutId
               /\ t.at <= undoNow
        /\ serverCall'.key \notin {p.id : p \in pendingDeletions'}
        /\ \A t \in timeouts' : t.key # serverCall'.key

\* C29: in the undo store, under any sequence of addPendingDeletion,
\* undoDelete, removePendingDeletion, cleanup and timer expiry, every pending
\* id has exactly one live timer and no timer is live for an id that is not
\* pending; an onExpire callback runs only from the live timer of the
\* pending entry of its id, hence at most once and not after the entry was
\* undone, removed, cleaned up or replaced; after it ran the id is not
\* pending.
C29_OneLiveTimerPerPendingId ==
    []OneTimerPerPendingId /\ [][ExpiryIsOfLiveEntry]_vars

\* A memo was deleted, brought back by the undo button of its toast, and
\* deleted again a second later: the second addPendingDeletion has replaced
\* the entry and the timeout of the first, and one timeout is live.
C29_SecondAddReplacedTimer ==
    /\ deletions = 2
    /\ undoNow < UNDO_TIMEOUT
    /\ undoPressed = {}
    /\ Cardinality(hiddenMemos) = 1
    /\ Cardinality(pendingDeletions) = 1
    /\ Cardinality(timeouts) = 1
    /\ \A t \in timeouts : t.at > UNDO_TIMEOUT /\ t.key.n \in hiddenMemos

(***************************************************************************)
(* parseComplexQuery: C9, C10                                              *)
(***************************************************************************)

\* The whitespace-delimited tokens of a string, each with its offset.
TokenRuns(s) ==
    {[index |-> i, text |-> Substring(s, i, RunEnd(s, i))] :
        i \in {i \in 0..(Len(s) - 1) : ~IsSpace(s[i + 1]) /\ (i = 0 \/ IsSpace(s[i]))}}

\* The tokens in order.
Tokens(s) == SelectSeq(SplitWs(s), LAMBDA t : t # << >>)

\* A token that is an alias of the operator table, Latin ones in any case.
IsAliasToken(t) ==
    \E k \in 1..Len(OperatorAliases) : ToUpperCase(t) = ToUpperCase(OperatorAliases[k])

\* The working string the operators are looked up in: the query without its
\* field clauses, trimmed.
PqCleanQuery == CleanQuery(pqQuery)

\* C9: parseComplexQuery records one operator entry, with the mapped type and
\* the position of the occurrence in the working string, for every
\* whitespace-delimited token that is an alias of the table, and no alias
\* token is among the returned terms.
C9_AliasTokensRecorded ==
    pqPc = "returned" =>
        /\ \A run \in TokenRuns(PqCleanQuery) :
               IsAliasToken(run.text) =>
                   Cardinality({k \in 1..Len(pqResult.operators) :
                                   /\ pqResult.operators[k].position = run.index
                                   /\ pqResult.operators[k].type = OperatorType(run.text)}) = 1
        /\ \A j \in 1..Len(pqResult.terms) : ~IsAliasToken(pqResult.terms[j])

\* The offsets of a token at which a field name, a colon and a value start.
ClauseStarts(t) ==
    {i \in 0..(Len(t) - 1) :
        \E k \in 1..Len(FieldNames) :
            /\ OccursAt(t, FieldNames[k] \o <<58>>, i)
            /\ i + Len(FieldNames[k]) + 1 < Len(t)}

\* The clause a token holds: the leftmost field name followed by a colon and
\* a value, the value being the rest of the token.
TokenClause(t) ==
    LET i == CHOOSE i \in ClauseStarts(t) : \A j \in ClauseStarts(t) : i <= j
        k == CHOOSE k \in 1..Len(FieldNames) : OccursAt(t, FieldNames[k] \o <<58>>, i)
    IN  [field |-> FieldLabel(k),
         value |-> Substring(t, i + Len(FieldNames[k]) + 1, Len(t))]

\* "tag:AI category:技術 foo"
C10_ExampleQuery ==
    <<116, 97, 103, 58, 65, 73, 32,
      99, 97, 116, 101, 103, 111, 114, 121, 58, 25216, 34899, 32,
      102, 111, 111>>

\* C10: parseComplexQuery records each field:value token (the value being
\* the rest of the token) as a field clause, in order of appearance; tags and
\* categories hold the values of the tag and category clauses; no returned
\* term holds a field:value; and "tag:AI category:技術 foo" yields the clauses
\* {tag, AI}, {category, 技術}, the term foo and no operator.
C10_FieldClausesRecorded ==
    pqPc = "returned" =>
        LET holders == SelectSeq(Tokens(pqQuery), LAMBDA t : ClauseStarts(t) # {})
        IN  /\ pqResult.fieldQueries = [j \in 1..Len(holders) |-> TokenClause(holders[j])]
            /\ pqResult.tags = ValuesOf(pqResult.fieldQueries, "tag")
            /\ pqResult.categories = ValuesOf(pqResult.fieldQueries, "category")
            /\ \A j \in 1..Len(pqResult.terms) : ClauseStarts(pqResult.terms[j]) = {}
            /\ pqQuery = C10_ExampleQuery =>
                   pqResult = [terms        |-> << <<102, 111, 111>> >>,
                               tags         |-> << <<65, 73>> >>,
                               categories   |-> << <<25216, 34899>> >>,
                               operators    |-> << >>,
                               fieldQueries |-> << [field |-> "tag", value |-> <<65, 73>>],
                                                   [field |-> "category",
                                                    value |-> <<25216, 34899>>] >>]

\* A returned parse of the example query.
C10_ExampleParsed == pqPc = "returned" /\ pqQuery = C10_ExampleQuery

====
